---- MODULE Spec2Model ----
(***************************************************************************)
(* Model of the prose ingestion pipeline: the append-only session-log      *)
(* parser (parseSessionFile / parseSessionFileFromOffset), the project     *)
(* memory store (updateProjectMemory, updateCurrentFragments) and the      *)
(* evolve command that drives them.                                        *)
(*                                                                         *)
(* A log is a sequence of bytes.  Offsets are 0-based as in the source:    *)
(* the byte at offset i of buffer b is b[i+1].                             *)
(***************************************************************************)
EXTENDS Integers, Sequences, FiniteSets, Bags, TLC

(***************************************************************************)
(* Bounds                                                                  *)
(***************************************************************************)
\* longest log the writer produces in the parser specification
MaxBytes == 9
\* longest session log the writers produce in the evolve specification
MaxFile == 7

\* most snapshots handed to one call of evolveHorizontal
MaxSnapshots == 5

\* most records in one session log of the batch specification
MaxBatchLines == 1

(***************************************************************************)
(* Bytes and lines                                                         *)
(***************************************************************************)
\* byte 10, the line separator searched by buffer.indexOf(10, ...)
LF == "LF"
\* a whitespace byte removed by String.prototype.trim
SP == "SP"

\* One-byte record bodies.  A line "{" b "}" stands for a JSON record:
\*   "1": type user,      text present, timestamp 1
\*   "2": type user,      text present, timestamp 2
\*   "a": type assistant, text present, timestamp 1
\*   "e": type user,      text empty after trim (no message is pushed)
\*   "s": type file-history-snapshot (no message is pushed)
Bodies == {"1", "2", "a", "e", "s"}

\* The lines a log writer appends, each written one byte at a time:
\* the five records, a blank line, a whitespace-only line, and a malformed
\* line "x" on which JSON.parse throws.
RecordLine(b) == <<"{", b, "}", LF>>
GarbageLine == <<"x", LF>>
WriterLines ==
  {RecordLine(b) : b \in Bodies} \cup {GarbageLine, <<LF>>, <<SP, LF>>}

(***************************************************************************)
(* Buffer primitives                                                       *)
(***************************************************************************)
Min(S) == CHOOSE x \in S : \A y \in S : x <= y

\* buffer.indexOf(10, currentOffset): offset of the first LF at or after
\* currentOffset, -1 when there is none
indexOf(buffer, currentOffset) ==
  LET hits == {i \in currentOffset..(Len(buffer) - 1) : buffer[i + 1] = LF}
  IN IF hits = {} THEN -1 ELSE Min(hits)

\* buffer.subarray(start, end): bytes at offsets start .. end-1
subarray(buffer, start, end) == SubSeq(buffer, start + 1, end)

RECURSIVE trimStart(_)
trimStart(line) ==
  IF line # <<>> /\ Head(line) = SP THEN trimStart(Tail(line)) ELSE line

RECURSIVE trimEnd(_)
trimEnd(line) ==
  IF line # <<>> /\ line[Len(line)] = SP
  THEN trimEnd(SubSeq(line, 1, Len(line) - 1))
  ELSE line

\* lineBuffer.toString('utf-8').trim()
trim(line) == trimEnd(trimStart(line))

\* Does the body of the try block throw on this (trimmed, non-empty) line?
\* JSON.parse accepts exactly the complete records "{" b "}".
Throws(line) ==
  ~(Len(line) = 3 /\ line[1] = "{" /\ line[3] = "}" /\ line[2] \in Bodies)

\* parsed.type of a line that parses
TypeOf(line) ==
  CASE line[2] \in {"1", "2", "e"} -> "user"
    [] line[2] = "a" -> "assistant"
    [] OTHER -> "file-history-snapshot"

\* extractTextContent(parsed.message.content).trim() is non-empty
HasText(line) == line[2] \in {"1", "2", "a"}

\* new Date(parsed.timestamp)
TimestampOf(line) == IF line[2] = "2" THEN 2 ELSE 1

\* The messages one parsed line pushes.  A record's uuid is unique in its
\* log; the model uses the absolute offset of the record's first byte.
Pushed(line, offset) ==
  IF TypeOf(line) \in {"user", "assistant"} /\ HasText(line)
  THEN << [role |-> TypeOf(line), timestamp |-> TimestampOf(line),
           messageUuid |-> offset] >>
  ELSE << >>

\* Array.prototype.sort((a, b) => a.timestamp - b.timestamp): stable
RECURSIVE insertSorted(_, _)
insertSorted(sorted, m) ==
  IF sorted = <<>> THEN <<m>>
  ELSE IF sorted[Len(sorted)].timestamp <= m.timestamp
       THEN Append(sorted, m)
       ELSE Append(insertSorted(SubSeq(sorted, 1, Len(sorted) - 1), m),
                   sorted[Len(sorted)])

RECURSIVE sortByTimestamp(_)
sortByTimestamp(messages) ==
  IF messages = <<>> THEN <<>>
  ELSE insertSorted(sortByTimestamp(SubSeq(messages, 1, Len(messages) - 1)),
                    messages[Len(messages)])

\* the uuids of a list of messages (messages.map(m => m.source))
Uuids(messages) == {messages[i].messageUuid : i \in 1..Len(messages)}

(***************************************************************************)
(* parseSessionFile                                                        *)
(***************************************************************************)
\* parseSessionFileLoop marking a processed line at its LF instead of just
\* past it
RECURSIVE parseSessionFileLoop_MarkAtNewline(_, _, _, _)
parseSessionFileLoop_MarkAtNewline(buffer, currentOffset, lastSuccessfulOffset, messages) ==
  IF ~(currentOffset < Len(buffer))
  THEN [messages |-> messages, processedBytes |-> lastSuccessfulOffset]
  ELSE
    LET found == indexOf(buffer, currentOffset)
        nextNewline == IF found = -1 THEN Len(buffer) ELSE found
        line == trim(subarray(buffer, currentOffset, nextNewline))
        marked == nextNewline
    IN IF line # <<>>
       THEN IF Throws(line)
            THEN [messages |-> messages,
                  processedBytes |-> lastSuccessfulOffset]
            ELSE parseSessionFileLoop_MarkAtNewline(
                   buffer, nextNewline + 1, marked,
                   messages \o Pushed(line, currentOffset))
       ELSE parseSessionFileLoop_MarkAtNewline(buffer, nextNewline + 1,
                                               marked, messages)

\* the while loop of parseSessionFile, from currentOffset with the
\* messages and lastSuccessfulOffset accumulated so far
RECURSIVE parseSessionFileLoop(_, _, _, _)
parseSessionFileLoop(buffer, currentOffset, lastSuccessfulOffset, messages) ==
  IF ~(currentOffset < Len(buffer))
  THEN [messages |-> messages, processedBytes |-> lastSuccessfulOffset]
  ELSE
    LET found == indexOf(buffer, currentOffset)
        nextNewline == IF found = -1 THEN Len(buffer) ELSE found
        line == trim(subarray(buffer, currentOffset, nextNewline))
        marked == IF nextNewline = Len(buffer) THEN Len(buffer)
                  ELSE nextNewline + 1
    IN IF line # <<>>
       THEN IF Throws(line)
            THEN [messages |-> messages,
                  processedBytes |-> lastSuccessfulOffset]
            ELSE parseSessionFileLoop(buffer, nextNewline + 1, marked,
                                      messages \o Pushed(line, currentOffset))
       ELSE parseSessionFileLoop(buffer, nextNewline + 1, marked, messages)

parseSessionFile(buffer) ==
  LET r == parseSessionFileLoop(buffer, 0, 0, <<>>)
  IN [messages |-> sortByTimestamp(r.messages),
      processedBytes |-> r.processedBytes]

(***************************************************************************)
(* parseSessionFileFromOffset                                              *)
(***************************************************************************)
\* the while loop of parseSessionFileFromOffset over the bytes read from
\* startOffset on
RECURSIVE parseSessionFileFromOffsetLoop(_, _, _, _, _)
parseSessionFileFromOffsetLoop(buffer, startOffset, currentOffset, lastSuccessfulOffset, messages) ==
  IF ~(currentOffset < Len(buffer))
  THEN [messages |-> messages, processedBytes |-> lastSuccessfulOffset]
  ELSE
    LET found == indexOf(buffer, currentOffset)
        nextNewline == IF found = -1 THEN Len(buffer) ELSE found
        line == trim(subarray(buffer, currentOffset, nextNewline))
        marked == startOffset + (IF nextNewline = Len(buffer) THEN Len(buffer)
                                 ELSE nextNewline + 1)
    IN IF line # <<>>
       THEN IF Throws(line)
            THEN [messages |-> messages,
                  processedBytes |-> lastSuccessfulOffset]
            ELSE parseSessionFileFromOffsetLoop(
                   buffer, startOffset, nextNewline + 1, marked,
                   messages \o Pushed(line, startOffset + currentOffset))
       ELSE parseSessionFileFromOffsetLoop(buffer, startOffset,
                                           nextNewline + 1, marked, messages)

\* parseSessionFileFromOffset starting lastSuccessfulOffset at 0 instead of
\* startOffset
parseSessionFileFromOffset_LastFromZero(file, startOffset) ==
  IF startOffset >= Len(file)
  THEN [messages |-> <<>>, processedBytes |-> startOffset]
  ELSE
    LET buffer == subarray(file, startOffset, Len(file))
        r == parseSessionFileFromOffsetLoop(buffer, startOffset, 0, 0, <<>>)
    IN [messages |-> sortByTimestamp(r.messages),
        processedBytes |-> r.processedBytes]

parseSessionFileFromOffset(file, startOffset) ==
  IF startOffset >= Len(file)
  THEN [messages |-> <<>>, processedBytes |-> startOffset]
  ELSE
    LET buffer == subarray(file, startOffset, Len(file))
        r == parseSessionFileFromOffsetLoop(buffer, startOffset, 0,
                                            startOffset, <<>>)
    IN [messages |-> sortByTimestamp(r.messages),
        processedBytes |-> r.processedBytes]

(***************************************************************************)
(* The line structure of a log, stated on the bytes themselves.  This is   *)
(* the vocabulary of the claims about the parser.                          *)
(***************************************************************************)
Max(S) == CHOOSE x \in S : \A y \in S : x >= y

\* offsets at which a line of b starts
LineStarts(b) ==
  {o \in 0..(Len(b) - 1) : o = 0 \/ b[o] = LF}

\* offset of the LF that ends the line starting at o, Len(b) if none yet
LineEnd(b, o) ==
  IF \E i \in o..(Len(b) - 1) : b[i + 1] = LF
  THEN Min({i \in o..(Len(b) - 1) : b[i + 1] = LF})
  ELSE Len(b)

\* the line starting at o without its surrounding whitespace
LineAt(b, o) ==
  LET raw == SubSeq(b, o + 1, LineEnd(b, o))
      keep == {i \in 1..Len(raw) : raw[i] # SP}
  IN IF keep = {} THEN <<>> ELSE SubSeq(raw, Min(keep), Max(keep))

\* the line at o is a complete record
IsRecord(b, o) ==
  LET l == LineAt(b, o)
  IN Len(l) = 3 /\ l[1] = "{" /\ l[3] = "}" /\ l[2] \in Bodies

\* the line at o is a complete record that carries an event
IsEventRecord(b, o) == IsRecord(b, o) /\ LineAt(b, o)[2] \in {"1", "2", "a"}

\* the line at o is neither blank nor a complete record
IsMalformed(b, o) == LineAt(b, o) # <<>> /\ ~IsRecord(b, o)

EventStarts(b) == {o \in LineStarts(b) : IsEventRecord(b, o)}
MalformedStarts(b) == {o \in LineStarts(b) : IsMalformed(b, o)}

LastStart(b) == Max(LineStarts(b))

\* the log ends in a line that has no LF yet and does not parse
TrailingPartial(b) ==
  /\ b # <<>>
  /\ b[Len(b)] # LF
  /\ IsMalformed(b, LastStart(b))

(***************************************************************************)
(* Fragments and project memory (memory.ts)                                *)
(***************************************************************************)
Sessions == {"s1", "s2"}

FragmentTypes == {"decisions", "insights", "focus", "narrative", "vocabulary"}

\* A fragment's content is abstracted to its provenance: the set of
\* <<sessionId, messageUuid>> pairs it was evolved from.  A null fragment
\* has no content.
Null == {}

\* emptyFragments(): every fragment null
emptyFragments == [t \in FragmentTypes |-> Null]

\* an optional number that is absent (fileSize?: number, rootPath?: string)
Undefined == -1

\* createProjectMemory(project)
createProjectMemory ==
  [current |-> emptyFragments,
   processedSessions |-> <<>>,
   sessionSnapshots |-> <<>>,
   rootPath |-> Undefined]

\* Array.prototype.findIndex(s => s.sessionId === sessionId), 1-based,
\* 0 when no element matches (-1 in the source)
findIndex(list, sessionId) ==
  LET hits == {i \in 1..Len(list) : list[i].sessionId = sessionId}
  IN IF hits = {} THEN 0 ELSE Min(hits)

\* the list with element i replaced, or with the element appended when
\* i = 0
upsertAt(list, i, elem) ==
  IF i >= 1
  THEN SubSeq(list, 1, i - 1) \o <<elem>> \o SubSeq(list, i + 1, Len(list))
  ELSE list \o <<elem>>

\* updateProjectMemory appending always, without looking for an existing
\* entry of the session
updateProjectMemory_AlwaysAppend(memory, fragments, sessionId, messageCount, modifiedTime, fileSize, rootPath) ==
  LET newState == [sessionId |-> sessionId, messageCount |-> messageCount,
                   modifiedTime |-> modifiedTime, fileSize |-> fileSize]
      newSnapshot == [sessionId |-> sessionId, timestamp |-> modifiedTime,
                      fragments |-> fragments]
  IN [memory EXCEPT
        !.processedSessions = upsertAt(memory.processedSessions, 0, newState),
        !.sessionSnapshots = upsertAt(memory.sessionSnapshots, 0, newSnapshot),
        !.rootPath = IF rootPath # Undefined THEN rootPath ELSE memory.rootPath]

\* updateProjectMemory replacing the list of snapshots by the new snapshot
updateProjectMemory_DropOthers(memory, fragments, sessionId, messageCount, modifiedTime, fileSize, rootPath) ==
  LET existingIndex == findIndex(memory.processedSessions, sessionId)
      newState == [sessionId |-> sessionId, messageCount |-> messageCount,
                   modifiedTime |-> modifiedTime, fileSize |-> fileSize]
      newSnapshot == [sessionId |-> sessionId, timestamp |-> modifiedTime,
                      fragments |-> fragments]
  IN [memory EXCEPT
        !.processedSessions =
           upsertAt(memory.processedSessions, existingIndex, newState),
        !.sessionSnapshots = <<newSnapshot>>,
        !.rootPath = IF rootPath # Undefined THEN rootPath ELSE memory.rootPath]

\* updateProjectMemory storing the session's fragments as current as well
updateProjectMemory_SetsCurrent(memory, fragments, sessionId, messageCount, modifiedTime, fileSize, rootPath) ==
  LET existingIndex == findIndex(memory.processedSessions, sessionId)
      newState == [sessionId |-> sessionId, messageCount |-> messageCount,
                   modifiedTime |-> modifiedTime, fileSize |-> fileSize]
      snapshotIndex == findIndex(memory.sessionSnapshots, sessionId)
      newSnapshot == [sessionId |-> sessionId, timestamp |-> modifiedTime,
                      fragments |-> fragments]
  IN [memory EXCEPT
        !.current = fragments,
        !.processedSessions =
           upsertAt(memory.processedSessions, existingIndex, newState),
        !.sessionSnapshots =
           upsertAt(memory.sessionSnapshots, snapshotIndex, newSnapshot),
        !.rootPath = IF rootPath # Undefined THEN rootPath ELSE memory.rootPath]

\* updateProjectMemory(memory, fragments, sessionId, sourceLinks,
\* messageCount, modifiedTime, fileSize, rootPath).  The write-only
\* sourceLinks list is left out of the model.
updateProjectMemory(memory, fragments, sessionId, messageCount, modifiedTime, fileSize, rootPath) ==
  LET existingIndex == findIndex(memory.processedSessions, sessionId)
      newState == [sessionId |-> sessionId, messageCount |-> messageCount,
                   modifiedTime |-> modifiedTime, fileSize |-> fileSize]
      snapshotIndex == findIndex(memory.sessionSnapshots, sessionId)
      newSnapshot == [sessionId |-> sessionId, timestamp |-> modifiedTime,
                      fragments |-> fragments]
  IN [memory EXCEPT
        !.processedSessions =
           upsertAt(memory.processedSessions, existingIndex, newState),
        !.sessionSnapshots =
           upsertAt(memory.sessionSnapshots, snapshotIndex, newSnapshot),
        !.rootPath = IF rootPath # Undefined THEN rootPath ELSE memory.rootPath]

\* updateCurrentFragments(memory, current)
updateCurrentFragments(memory, current) ==
  [memory EXCEPT !.current = current]

\* getSessionProcessingState(memory, sessionId): the first matching state,
\* NoState (null) when the memory is null or holds none
NoMemory == [exists |-> FALSE]
NoState == [sessionId |-> "none"]

getSessionProcessingState(memory, sessionId) ==
  IF memory = NoMemory THEN NoState
  ELSE LET i == findIndex(memory.processedSessions, sessionId)
       IN IF i = 0 THEN NoState ELSE memory.processedSessions[i]

\* number !== undefined && number !== 0 (the truthiness test on fileSize)
Truthy(n) == n # Undefined /\ n # 0

\* sessionNeedsProcessingFast(memory, sessionId, currentFileSize)
sessionNeedsProcessingFast(memory, sessionId, currentFileSize) ==
  LET state == getSessionProcessingState(memory, sessionId)
  IN \/ state = NoState
     \/ ~Truthy(state.fileSize)
     \/ currentFileSize > state.fileSize

\* the fragment types of the add command and the fragment of current each
\* one writes to
AddTypes == {"decision", "gotcha", "insight", "focus"}

AddTarget(type) ==
  CASE type = "decision" -> "decisions"
    [] type = "gotcha" -> "insights"
    [] type = "insight" -> "insights"
    [] type = "focus" -> "focus"

\* provenance of content entered with the add command
AddedDirectly == <<"add", 0>>

\* addFragment(projectName, type, content, options): the memory it saves,
\* given the memory it loaded (NoMemory when there is none)
addFragment(loaded, type) ==
  LET memory == IF loaded = NoMemory THEN createProjectMemory ELSE loaded
  IN [memory EXCEPT !.current[AddTarget(type)] = @ \cup {AddedDirectly}]

(***************************************************************************)
(* Parser specification: a writer appends lines byte by byte, and the two  *)
(* parse functions are called on the log as it stands.                     *)
(***************************************************************************)
VARIABLES
  log,      \* the bytes of the log file
  rest,     \* bytes of the line being written that are not yet on disk
  earlier,  \* result of an earlier parseSessionFile pass, or NoPass
  full,     \* result of the latest parseSessionFile call, or NoPass
  incr      \* result of the latest parseSessionFileFromOffset call, or NoPass

pvars == <<log, rest, earlier, full, incr>>

\* state of the memory-store specification
VARIABLES
  pm,       \* a ProjectMemory value held by a caller of memory.ts
  lastCall  \* the memory operation applied last and the session it named

mvars == <<pm, lastCall>>

\* state of the evolve specification
VARIABLES
  files,     \* files[s]: the bytes of session s's log
  pending,   \* pending[s]: bytes of the line s's writer has not yet written
  mtime,     \* mtime[s]: modification time of session s's log
  clock,     \* the time of the latest write
  disk,      \* the project's persisted memory file, NoMemory before the first save
  run,       \* the evolve command in progress: its position and locals
  delivered, \* delivered[s]: uuids of the messages handed to vertical evolution
  deferred,  \* deferred[s]: starts of the lines that were a malformed
             \* trailing line when a pass parsed the log
  seen       \* seen[s]: the latest pass over s: the log length it read, the
             \* parser's processedBytes and the number of new messages

evars == <<files, pending, mtime, clock, disk, run, delivered, deferred, seen>>

vars == <<log, rest, earlier, full, incr, pm, lastCall,
          files, pending, mtime, clock, disk, run, delivered, deferred, seen>>

NoPass == [len |-> -1]

ParseInit ==
  /\ log = <<>>
  /\ rest = <<>>
  /\ earlier = NoPass
  /\ full = NoPass
  /\ incr = NoPass

\* the writer puts the next byte of its current line on disk, starting a
\* new line when the previous one is complete; results of calls made on
\* the shorter log are dropped
AppendByte ==
  /\ Len(log) < MaxBytes
  /\ \E l \in (IF rest = <<>> THEN WriterLines ELSE {rest}) :
       /\ log' = Append(log, Head(l))
       /\ rest' = Tail(l)
  /\ full' = NoPass
  /\ incr' = NoPass
  /\ UNCHANGED <<earlier, mvars, evars>>

\* parseSessionFile(log); the caller may keep the result as the earlier pass
CallParseSessionFile ==
  /\ \E keep \in (IF earlier = NoPass THEN BOOLEAN ELSE {FALSE}) :
       LET r == parseSessionFile(log)
           res == [len |-> Len(log), messages |-> r.messages,
                   processedBytes |-> r.processedBytes]
       IN /\ full' = res
          /\ earlier' = IF keep THEN res ELSE earlier
  /\ UNCHANGED <<log, rest, incr, mvars, evars>>

\* parseSessionFileFromOffset(log, k) with k the processedBytes of the
\* earlier pass
CallParseSessionFileFromOffset ==
  /\ earlier # NoPass
  /\ LET r == parseSessionFileFromOffset(log, earlier.processedBytes)
     IN incr' = [len |-> Len(log), from |-> earlier.processedBytes,
                 messages |-> r.messages,
                 processedBytes |-> r.processedBytes]
  /\ UNCHANGED <<log, rest, earlier, full, mvars, evars>>

ParseNext ==
  \/ AppendByte
  \/ CallParseSessionFile
  \/ CallParseSessionFileFromOffset

(***************************************************************************)
(* Memory-store specification: updateProjectMemory and                     *)
(* updateCurrentFragments applied, in any order and with any arguments,    *)
(* to the memory made by createProjectMemory.                              *)
(***************************************************************************)
\* fragment sets handed to the memory operations
SampleFragments ==
  {emptyFragments,
   [t \in FragmentTypes |-> IF t = "vocabulary" THEN Null ELSE {<<"s1", 0>>}]}

MemInit ==
  /\ pm = createProjectMemory
  /\ lastCall = [op |-> "create", sessionId |-> "none"]

CallUpdateProjectMemory ==
  \E fragments \in SampleFragments, sessionId \in Sessions,
     messageCount \in 0..1, modifiedTime \in 1..2,
     fileSize \in {Undefined, 0, 4}, rootPath \in {Undefined, 1} :
    /\ pm' = updateProjectMemory(pm, fragments, sessionId, messageCount,
                                 modifiedTime, fileSize, rootPath)
    /\ lastCall' = [op |-> "updateProjectMemory", sessionId |-> sessionId]
    /\ UNCHANGED <<pvars, evars>>

CallUpdateCurrentFragments ==
  \E current \in SampleFragments :
    /\ pm' = updateCurrentFragments(pm, current)
    /\ lastCall' = [op |-> "updateCurrentFragments", sessionId |-> "none"]
    /\ UNCHANGED <<pvars, evars>>

(***************************************************************************)
(* Vertical and horizontal evolution (evolve.ts, horizontal.ts)            *)
(***************************************************************************)
\* the fragment types evolved by a collaborator call
CollaboratorTypes == {"decisions", "insights", "focus", "narrative"}

\* the sets of collaborator calls that fail in one pass
FailureSets == {{}, {"narrative"}, CollaboratorTypes}

\* what the messages of a session add to a fragment evolved from them
Evidence(sessionId, messages) == {<<sessionId, u>> : u \in Uuids(messages)}

\* evolveDecisions, evolveInsights, evolveFocus, evolveNarrative: the
\* EvolutionResult of one collaborator call; the catch block returns a
\* result without data
collaboratorResult(currentState, evidence, fails) ==
  IF fails THEN [success |-> FALSE]
  ELSE [success |-> TRUE, data |-> currentState \cup evidence]

\* evolveVocabulary: computed locally, always succeeds
evolveVocabulary(currentState, evidence) ==
  [success |-> TRUE, data |-> currentState \cup evidence]

\* evolveAllFragments keeping every prior value when any call fails
evolveAllFragmentsResult_AllOrNothing(currentFragments, sessionId, messages, failed) ==
  LET evidence == Evidence(sessionId, messages)
  IN [fragments |->
        [t \in FragmentTypes |->
           IF failed # {} THEN currentFragments[t]
           ELSE currentFragments[t] \cup evidence],
      errors |-> failed]

\* evolveAllFragments(currentFragments, context, config) when the
\* collaborator calls of the types in failed fail: the BatchEvolutionResult
\* (fragments and errors)
evolveAllFragmentsResult(currentFragments, sessionId, messages, failed) ==
  LET evidence == Evidence(sessionId, messages)
      results == [t \in CollaboratorTypes |->
                    collaboratorResult(currentFragments[t], evidence,
                                       t \in failed)]
      vocabularyResult == evolveVocabulary(currentFragments["vocabulary"],
                                           evidence)
  IN [fragments |->
        [t \in FragmentTypes |->
           IF t = "vocabulary" THEN vocabularyResult.data
           ELSE IF results[t].success THEN results[t].data
           ELSE currentFragments[t]],
      errors |-> {t \in CollaboratorTypes : ~results[t].success}]

\* the fragments of evolveAllFragments's result
evolveAllFragments(currentFragments, sessionId, messages, failed) ==
  evolveAllFragmentsResult(currentFragments, sessionId, messages,
                           failed).fragments

\* snapshots.sort((a, b) => b.timestamp - a.timestamp): stable, newest first
RECURSIVE insertNewestFirst(_, _)
insertNewestFirst(sorted, e) ==
  IF sorted = <<>> THEN <<e>>
  ELSE IF sorted[Len(sorted)].timestamp >= e.timestamp
       THEN Append(sorted, e)
       ELSE Append(insertNewestFirst(SubSeq(sorted, 1, Len(sorted) - 1), e),
                   sorted[Len(sorted)])

\* the snapshots left in the order they were given
sortNewestFirst_Unsorted(snapshots) == snapshots

RECURSIVE sortNewestFirst(_)
sortNewestFirst(snapshots) ==
  IF snapshots = <<>> THEN <<>>
  ELSE insertNewestFirst(
         sortNewestFirst(SubSeq(snapshots, 1, Len(snapshots) - 1)),
         snapshots[Len(snapshots)])

\* Array.prototype.slice(0, n)
slice0(list, n) == SubSeq(list, 1, IF n < Len(list) THEN n ELSE Len(list))

\* the default of config.windowSize
DefaultWindowSize == 3

\* the fragments the four horizontal collaborator calls consolidate from
\* the baseline and the window; vocabulary is set to null
consolidate(window, hasBaseline, currentFragments) ==
  [t \in FragmentTypes |->
     IF t = "vocabulary" THEN Null
     ELSE (IF hasBaseline THEN currentFragments[t] ELSE Null)
            \cup UNION {window[i].fragments[t] : i \in 1..Len(window)}]

\* evolveHorizontal calling the collaborator for a single snapshot without
\* baseline too
evolveHorizontalResult_NoBootstrap(snapshots, windowSize, hasBaseline, currentFragments, failed) ==
  LET size == IF windowSize = 0 THEN DefaultWindowSize ELSE windowSize
      window == slice0(sortNewestFirst(snapshots), size)
  IN IF Len(window) = 0
     THEN [threw |-> FALSE, current |-> emptyFragments,
           sessionsIncluded |-> 0, calls |-> {}, window |-> window]
     ELSE IF failed # {}
     THEN [threw |-> TRUE, calls |-> CollaboratorTypes, window |-> window]
     ELSE [threw |-> FALSE,
           current |-> consolidate(window, hasBaseline, currentFragments),
           sessionsIncluded |-> Len(window), calls |-> CollaboratorTypes,
           window |-> window]

\* evolveHorizontal(snapshots, config) when the collaborator calls of the
\* types in failed fail or time out.  windowSize 0 stands for an absent
\* config.windowSize; config.currentFragments is absent when hasBaseline is
\* FALSE.  The result is the HorizontalEvolutionResult, with the window
\* taken and the collaborator calls made; a rejected call rejects
\* Promise.all and with it evolveHorizontal (threw).
evolveHorizontalResult(snapshots, windowSize, hasBaseline, currentFragments, failed) ==
  LET size == IF windowSize = 0 THEN DefaultWindowSize ELSE windowSize
      window == slice0(sortNewestFirst(snapshots), size)
  IN IF Len(window) = 0
     THEN [threw |-> FALSE, current |-> emptyFragments,
           sessionsIncluded |-> 0, calls |-> {}, window |-> window]
     ELSE IF Len(window) = 1 /\ ~hasBaseline
     THEN [threw |-> FALSE, current |-> window[1].fragments,
           sessionsIncluded |-> 1, calls |-> {}, window |-> window]
     ELSE IF failed # {}
     THEN [threw |-> TRUE, calls |-> CollaboratorTypes, window |-> window]
     ELSE [threw |-> FALSE,
           current |-> consolidate(window, hasBaseline, currentFragments),
           sessionsIncluded |-> Len(window), calls |-> CollaboratorTypes,
           window |-> window]

\* the current of evolveHorizontal's result when every collaborator call
\* succeeds
evolveHorizontal(snapshots, windowSize, hasBaseline, currentFragments) ==
  evolveHorizontalResult(snapshots, windowSize, hasBaseline,
                         currentFragments, {}).current

(***************************************************************************)
(* The evolve command (cli.ts)                                             *)
(***************************************************************************)
\* bodies of the records the session writers append
EvolveBodies == {"1", "2", "s"}

EvolveLines ==
  {RecordLine(b) : b \in EvolveBodies} \cup {GarbageLine, <<LF>>}

\* the session logs of the project being evolved
EvolveSessions == {"s1"}

\* process.cwd(), the value stored as rootPath
Cwd == 1

\* values of the --limit option
Limits == {1, 2}

\* discoverSessionFiles(): one SessionFile per log, newest first
RECURSIVE newestFirst(_)
newestFirst(S) ==
  IF S = {} THEN <<>>
  ELSE LET s == CHOOSE x \in S : \A y \in S : mtime[x] >= mtime[y]
       IN <<[sessionId |-> s, modifiedTime |-> mtime[s],
             fileSize |-> Len(files[s])]>> \o newestFirst(S \ {s})

discoverSessionFiles == newestFirst(DOMAIN files)

\* the first pass selecting a session whose log is as long as the stored
\* offset
needsWork_GreaterOrEqual(memory, session, force) ==
  LET state == getSessionProcessingState(memory, session.sessionId)
  IN /\ session.fileSize # 0
     /\ \/ state = NoState
        \/ state.fileSize = Undefined
        \/ force
        \/ session.fileSize >= state.fileSize

\* the first pass of the evolve action: does the session need work?
needsWork(memory, session, force) ==
  LET state == getSessionProcessingState(memory, session.sessionId)
  IN /\ session.fileSize # 0
     /\ \/ state = NoState
        \/ state.fileSize = Undefined
        \/ force
        \/ session.fileSize > state.fileSize

\* [...sessionsNeedingWork].sort((a, b) => a.modifiedTime - b.modifiedTime)
RECURSIVE insertOldestFirst(_, _)
insertOldestFirst(sorted, e) ==
  IF sorted = <<>> THEN <<e>>
  ELSE IF sorted[Len(sorted)].modifiedTime <= e.modifiedTime
       THEN Append(sorted, e)
       ELSE Append(insertOldestFirst(SubSeq(sorted, 1, Len(sorted) - 1), e),
                   sorted[Len(sorted)])

\* the sessions needing work left in the order of discovery
sortOldestFirst_Unsorted(sessions) == sessions

RECURSIVE sortOldestFirst(_)
sortOldestFirst(sessions) ==
  IF sessions = <<>> THEN <<>>
  ELSE insertOldestFirst(
         sortOldestFirst(SubSeq(sessions, 1, Len(sessions) - 1)),
         sessions[Len(sessions)])

Idle == [pc |-> "idle", todo |-> <<>>, next |-> 1, processed |-> 0]

\* a project with the empty session logs S and no memory on disk
EvolveInitOver(S) ==
  /\ files = [s \in S |-> <<>>]
  /\ pending = [s \in S |-> <<>>]
  /\ mtime = [s \in S |-> 0]
  /\ clock = 0
  /\ disk = NoMemory
  /\ run = Idle
  /\ delivered = [s \in S |-> {}]
  /\ deferred = [s \in S |-> {}]
  /\ seen = [s \in S |-> NoPass]

EvolveInit == EvolveInitOver(EvolveSessions)

\* a session's writer puts a whole user record on disk
WriterAppendLine(s) ==
  /\ Len(files[s]) + 4 <= 4 * MaxBatchLines
  /\ files' = [files EXCEPT ![s] = @ \o RecordLine("1")]
  /\ clock' = clock + 1
  /\ mtime' = [mtime EXCEPT ![s] = clock + 1]
  /\ UNCHANGED <<pending, disk, run, delivered, deferred, seen, pvars, mvars>>

\* a session's writer stops in the middle of a record: the log ends in a
\* line that stays malformed
WriterAbandonsLine(s) ==
  /\ files[s] # <<>>
  /\ files[s][Len(files[s])] = LF
  /\ files' = [files EXCEPT ![s] = Append(@, "{")]
  /\ clock' = clock + 1
  /\ mtime' = [mtime EXCEPT ![s] = clock + 1]
  /\ UNCHANGED <<pending, disk, run, delivered, deferred, seen, pvars, mvars>>

\* a session's writer puts the next byte of its current line on disk
WriterAppend(s) ==
  /\ Len(files[s]) < MaxFile
  /\ \E l \in (IF pending[s] = <<>> THEN EvolveLines ELSE {pending[s]}) :
       /\ files' = [files EXCEPT ![s] = Append(@, Head(l))]
       /\ pending' = [pending EXCEPT ![s] = Tail(l)]
  /\ clock' = clock + 1
  /\ mtime' = [mtime EXCEPT ![s] = clock + 1]
  /\ UNCHANGED <<disk, run, delivered, deferred, seen, pvars, mvars>>

\* prose evolve: discovery, the needs-work pass, ordering and the limit
EvolveStart ==
  /\ run.pc = "idle"
  /\ \E force \in BOOLEAN, limit \in Limits :
       LET sessions == discoverSessionFiles
           sessionsNeedingWork ==
             SelectSeq(sessions, LAMBDA x : needsWork(disk, x, force))
           sessionsToProcess ==
             slice0(sortOldestFirst(sessionsNeedingWork), limit)
       IN run' = [pc |-> "vertical", todo |-> sessionsToProcess,
                  next |-> 1, processed |-> 0]
  /\ UNCHANGED <<files, pending, mtime, clock, disk, delivered, deferred, seen>>
  /\ UNCHANGED <<pvars, mvars>>

\* one iteration of the loop over sessionsToProcess
EvolveSession ==
  /\ run.pc = "vertical"
  /\ run.next <= Len(run.todo)
  /\ LET session == run.todo[run.next]
         sid == session.sessionId
         memory == IF disk = NoMemory THEN createProjectMemory ELSE disk
         prevState == getSessionProcessingState(memory, sid)
         hasPrev == prevState # NoState
         fast == /\ hasPrev
                 /\ Truthy(prevState.fileSize)
                 /\ prevState.fileSize < session.fileSize
         result == parseSessionFileFromOffset(files[sid], prevState.fileSize)
         conversation == parseSessionFile(files[sid])
         parsedCount == Len(conversation.messages)
         skip == ~fast /\ hasPrev /\ prevState.messageCount >= parsedCount
         messagesToProcess ==
           IF fast THEN result.messages
           ELSE IF hasPrev /\ prevState.messageCount < parsedCount
                THEN SubSeq(conversation.messages,
                            prevState.messageCount + 1, parsedCount)
                ELSE conversation.messages
         totalMessageCount ==
           IF fast THEN prevState.messageCount + Len(result.messages)
           ELSE parsedCount
         lastProcessedBytes ==
           IF fast THEN result.processedBytes
           ELSE conversation.processedBytes
         snapshotIndex == findIndex(memory.sessionSnapshots, sid)
         existing == IF snapshotIndex = 0 THEN emptyFragments
                     ELSE memory.sessionSnapshots[snapshotIndex].fragments
         step == [run EXCEPT !.next = @ + 1]
         pass(new) == [len |-> Len(files[sid]), size |-> session.fileSize,
                       processedBytes |-> lastProcessedBytes, new |-> new]
     IN \/ \* readFileSync or saveProjectMemory throws: nothing catches
           \* it in the loop, the command ends
           /\ run' = Idle
           /\ UNCHANGED <<disk, delivered, deferred, seen>>
        \/ \* a vertical collaborator call never responds: it carries no
           \* timeout, evolveAllFragments is awaited for ever
           /\ ~skip
           /\ messagesToProcess # <<>>
           /\ run' = [run EXCEPT !.pc = "awaiting"]
           /\ UNCHANGED <<disk, delivered, deferred, seen>>
        \/ /\ deferred' = [deferred EXCEPT
                             ![sid] = IF TrailingPartial(files[sid])
                                      THEN @ \cup {LastStart(files[sid])}
                                      ELSE @]
           /\ IF skip
              THEN \* no new messages: backfill fileSize and rootPath
                /\ disk' =
                     IF ~Truthy(prevState.fileSize) \/ memory.rootPath = Undefined
                     THEN [memory EXCEPT
                             !.processedSessions[
                                findIndex(memory.processedSessions, sid)].fileSize
                                  = session.fileSize,
                             !.rootPath = Cwd]
                     ELSE disk
                /\ run' = step
                /\ seen' = [seen EXCEPT ![sid] = pass(0)]
                /\ UNCHANGED delivered
              ELSE IF messagesToProcess = <<>>
              THEN \* update metadata anyway
                /\ disk' = updateProjectMemory(memory, emptyFragments, sid,
                                               totalMessageCount,
                                               session.modifiedTime,
                                               lastProcessedBytes, Undefined)
                /\ run' = step
                /\ seen' = [seen EXCEPT ![sid] = pass(0)]
                /\ UNCHANGED delivered
              ELSE \* vertical evolution of the new messages
                \E failed \in FailureSets :
                  /\ disk' = updateProjectMemory(
                               memory,
                               evolveAllFragments(existing, sid,
                                                  messagesToProcess, failed),
                               sid, totalMessageCount, session.modifiedTime,
                               lastProcessedBytes, Cwd)
                  /\ run' = [step EXCEPT !.processed = @ + 1]
                  /\ seen' = [seen EXCEPT
                                ![sid] = pass(Len(messagesToProcess))]
                  /\ delivered' = [delivered EXCEPT
                                     ![sid] = @ \cup Uuids(messagesToProcess)]
  /\ UNCHANGED <<files, pending, mtime, clock, pvars, mvars>>

\* the sets of horizontal collaborator calls that fail or time out
HorizontalFailureSets == {{}, {"narrative"}}

\* every snapshot of the project
snapshotsToUse_AllSnapshots(memory, sessionsToProcess) ==
  IF memory = NoMemory THEN <<>> ELSE memory.sessionSnapshots

\* the snapshots fed to horizontal evolution: those of the sessions the run
\* selected for processing
snapshotsToUse(memory, sessionsToProcess) ==
  LET newSessionIds == {sessionsToProcess[i].sessionId :
                          i \in 1..Len(sessionsToProcess)}
  IN IF memory = NoMemory THEN <<>>
     ELSE SelectSeq(memory.sessionSnapshots,
                    LAMBDA x : x.sessionId \in newSessionIds)

\* Math.max(snapshotsToUse.length, 3)
windowSizeFor(snapshots) == IF Len(snapshots) > 3 THEN Len(snapshots) ELSE 3

\* after the loop: the command ends, or loads the memory and calls
\* evolveHorizontal, whose collaborator calls are then in flight
EvolveFinish ==
  /\ run.pc = "vertical"
  /\ run.next > Len(run.todo)
  /\ IF run.processed > 0 /\ snapshotsToUse(disk, run.todo) # <<>>
     THEN \E failed \in HorizontalFailureSets :
            run' = [pc |-> "horizontal", todo |-> run.todo,
                    next |-> run.next, processed |-> run.processed,
                    snapshots |-> snapshotsToUse(disk, run.todo),
                    failed |-> failed]
     ELSE run' = Idle
  /\ UNCHANGED <<files, pending, mtime, clock, disk, delivered, deferred, seen>>
  /\ UNCHANGED <<pvars, mvars>>

\* evolveHorizontal returns and its result is stored as current, or it
\* rejects (a failed or timed-out call rejects Promise.all) and the
\* command ends without writing current
EvolveHorizontalDone ==
  /\ run.pc = "horizontal"
  /\ LET result == evolveHorizontalResult(run.snapshots,
                                          windowSizeFor(run.snapshots),
                                          TRUE, disk.current, run.failed)
     IN disk' = IF result.threw THEN disk
                ELSE updateCurrentFragments(disk, result.current)
  /\ run' = Idle
  /\ UNCHANGED <<files, pending, mtime, clock, delivered, deferred, seen>>
  /\ UNCHANGED <<pvars, mvars>>

(***************************************************************************)
(* evolveVocabulary on the text of the messages                            *)
(***************************************************************************)
\* sample words of message text, as characters
WordGit == <<"G", "i", "t">>
WordConstructor == <<"c", "o", "n", "s", "t", "r", "u", "c", "t", "o", "r">>
WordAppTs == <<"a", "p", "p", ".", "t", "s">>
SampleWords == {WordGit, WordConstructor, WordAppTs}

\* toLowerCase on the sample alphabet
toLowerCase(c) == IF c = "G" THEN "g" ELSE c

\* the characters /[^a-z0-9\s-]/ leaves in place, among those of the sample
TokenChars == {"a", "c", "g", "i", "n", "o", "p", "r", "s", "t", "u", " ", "-"}

\* messages.map(m => m.content).join(' ')
RECURSIVE joinContents(_)
joinContents(contents) ==
  IF contents = <<>> THEN <<>>
  ELSE IF Len(contents) = 1 THEN contents[1]
  ELSE contents[1] \o <<" ">> \o joinContents(Tail(contents))

\* text.split(separator class): the runs of characters outside separators;
\* empty runs are dropped later by the length filters
RECURSIVE splitRuns(_, _, _)
splitRuns(text, separators, part) ==
  IF text = <<>> THEN (IF part = <<>> THEN <<>> ELSE <<part>>)
  ELSE IF Head(text) \in separators
       THEN (IF part = <<>> THEN <<>> ELSE <<part>>)
              \o splitRuns(Tail(text), separators, <<>>)
       ELSE splitRuns(Tail(text), separators, Append(part, Head(text)))

\* allText: joined and lower-cased
allTextOf(contents) ==
  LET joined == joinContents(contents)
  IN [i \in 1..Len(joined) |-> toLowerCase(joined[i])]

\* the tokens: other characters replaced by a space, split on white space,
\* kept when longer than 2 and shorter than 30
tokensOf(allText) ==
  LET replaced == [i \in 1..Len(allText) |->
                     IF allText[i] \in TokenChars THEN allText[i] ELSE " "]
  IN SelectSeq(splitRuns(replaced, {" "}, <<>>),
               LAMBDA t : Len(t) > 2 /\ Len(t) < 30)

\* a number as a value of the terms object
Number(n) == [text |-> FALSE, n |-> n]

\* the string "function Object() { [native code] }" followed by n times "1"
ObjectText(n) == [text |-> TRUE, n |-> n]

\* the lower-case names of 3 to 29 letters that a plain object inherits
ObjectPrototypeKeys == {WordConstructor}

\* terms[token] = (terms[token] || 0) + 1 on the plain object terms
incrementTerm(terms, token) ==
  LET value == IF token \in DOMAIN terms
               THEN (IF terms[token].text
                     THEN ObjectText(terms[token].n + 1)
                     ELSE Number(terms[token].n + 1))
               ELSE IF token \in ObjectPrototypeKeys THEN ObjectText(1)
               ELSE Number(1)
  IN [t \in DOMAIN terms \cup {token} |->
        IF t = token THEN value ELSE terms[t]]

\* for (const token of tokens) ...
RECURSIVE countTokens(_, _)
countTokens(terms, tokens) ==
  IF tokens = <<>> THEN terms
  ELSE countTokens(incrementTerm(terms, Head(tokens)), Tail(tokens))

\* the names techPatterns matches, among the runs of the sample
TechnologyNames == {<<"g", "i", "t">>, <<"g", "o">>}

\* allText.match(techPatterns): the maximal runs of word characters that
\* are a name (space, dash and dot are the other characters of the sample)
technologiesOf(allText) ==
  LET runs == splitRuns(allText, {" ", "-", "."}, <<>>)
  IN {runs[i] : i \in 1..Len(runs)} \cap TechnologyNames

\* the extensions filePatterns matches, among those of the sample
FileExtensions == {<<"t", "s">>}

\* allText.match(filePatterns) on texts whose words hold at most one dot: the
\* words made of a name, a dot and an extension
filesOf(allText) ==
  LET words == splitRuns(allText, {" "}, <<>>)
      isFile(w) ==
        \E k \in 2..(Len(w) - 1) :
          /\ w[k] = "."
          /\ \A i \in 1..(k - 1) : w[i] \in TokenChars \ {" "}
          /\ SubSeq(w, k + 1, Len(w)) \in FileExtensions
  IN {words[i] : i \in {j \in 1..Len(words) : isFile(words[j])}}

\* emptyVocabulary()
emptyVocabulary ==
  [terms |-> [t \in {} |-> Number(0)], concepts |-> {},
   technologies |-> {}, files |-> {}]

\* evolveVocabulary(currentState, context).data on the contents of
\* context.messages; NoVocabulary is the null currentState
NoVocabulary == [null |-> TRUE]

evolveVocabularyData(currentState, contents) ==
  LET state == IF currentState = NoVocabulary THEN emptyVocabulary
               ELSE currentState
      allText == allTextOf(contents)
  IN [terms |-> countTokens(state.terms, tokensOf(allText)),
      concepts |-> state.concepts,
      technologies |-> state.technologies \cup technologiesOf(allText),
      files |-> state.files \cup filesOf(allText)]

\* most words in the messages of one window
MaxWords == 2

\* the message contents of at most n words
RECURSIVE SampleContents(_)
SampleContents(n) ==
  IF n = 0 THEN {<<>>}
  ELSE SampleContents(n - 1)
         \cup {IF c = <<>> THEN w ELSE c \o <<" ">> \o w :
                 c \in SampleContents(n - 1) \ {<<>>}, w \in SampleWords}
         \cup SampleWords

\* the number of words of a content
wordsIn(content) == Len(splitRuns(content, {" "}, <<>>))

\* the windows: one or two messages of at most MaxWords words together
SampleWindows ==
  {<<c>> : c \in SampleContents(MaxWords)}
    \cup {w \in SampleContents(MaxWords) \X SampleContents(MaxWords) :
            wordsIn(w[1]) + wordsIn(w[2]) <= MaxWords}

\* evolveVocabulary on a window, starting from null or from the vocabulary
\* the call before returned
CallEvolveVocabulary ==
  /\ lastCall.op = "load" \/ (lastCall.op = "evolveVocabulary" /\ lastCall.first)
  /\ \E contents \in SampleWindows :
       /\ LET currentState == IF lastCall.op = "load" THEN NoVocabulary
                              ELSE lastCall.data
          IN lastCall' =
               [op |-> "evolveVocabulary", sessionId |-> "none",
                first |-> lastCall.op = "load",
                currentState |-> currentState, contents |-> contents,
                collaboratorCalls |-> 0,
                data |-> evolveVocabularyData(currentState, contents)]
  /\ UNCHANGED <<pm, pvars, evars>>

(***************************************************************************)
(* searchMemory                                                            *)
(***************************************************************************)
\* sample texts of decisions, as characters
TextGit == <<"g", "i", "t">>
TextGits == <<"g", "i", "t", "s">>
TextGitApp == <<"g", "i", "t", " ", "a", "p", "p">>
SampleEntries == <<TextGit, TextGits, TextGitApp>>

\* sample queries: one word, two words (one in capitals), three words of
\* which one is too short to be a term, and one word too short to be a term
SampleQueries ==
  {<<"g", "i", "t">>,
   <<"G", "i", "t", " ", "a", "p", "p">>,
   <<"g", "i", "t", " ", "a", "p", "p", " ", "g", "o">>,
   <<"g", "o">>}

\* text.toLowerCase()
lowerCase(text) == [i \in 1..Len(text) |-> toLowerCase(text[i])]

\* query.toLowerCase().split(/\s+/).filter(t => t.length > 2)
queryTermsOf(query) ==
  SelectSeq(splitRuns(lowerCase(query), {" "}, <<>>), LAMBDA t : Len(t) > 2)

\* query.trim().split(/\s+/).length, for a query that is not blank
wordCountOf(query) == Len(splitRuns(query, {" "}, <<>>))

\* textLower.includes(term)
includes(text, term) ==
  \E i \in 1..(Len(text) - Len(term) + 1) :
    SubSeq(text, i, i + Len(term) - 1) = term

\* new RegExp(`\\b${term}\\b`).test(textLower), for terms of word
\* characters: an occurrence with no word character before or after it
wordMatch(text, term) ==
  \E i \in 1..(Len(text) - Len(term) + 1) :
    /\ SubSeq(text, i, i + Len(term) - 1) = term
    /\ i = 1 \/ text[i - 1] \in {" ", "-", "."}
    /\ i + Len(term) > Len(text) \/ text[i + Len(term)] \in {" ", "-", "."}

\* scoreMatch(queryTerms, text)
scoreMatch(queryTerms, text) ==
  LET textLower == lowerCase(text)
      termScore(term) ==
        IF includes(textLower, term)
        THEN 10 + (IF wordMatch(textLower, term) THEN 5 ELSE 0)
        ELSE 0
      sum[i \in 0..Len(queryTerms)] ==
        IF i = 0 THEN 0 ELSE sum[i - 1] + termScore(queryTerms[i])
  IN sum[Len(queryTerms)]

\* no options.projects, no options.types
NoFilter == {"undefined"}

\* calculateFragmentHash(type, content, context): the digest, one for
\* every type and text
calculateFragmentHash(type, content) == <<type, ":">> \o content

\* calculateFileHash(content), the hash of a source chunk
calculateFileHash(content) == <<"sha256">> \o content

\* `Chunk in ${relativePath} (${chunk.type}, L${startLine}-${endLine})` for
\* chunk k of the file src, which starts at line k
chunkDescription(k) ==
  <<"s", "r", "c", " ", "L">> \o (IF k = 1 THEN <<"1">> ELSE <<"2">>)

\* DEFAULT_VECTOR_THRESHOLD * 100
DefaultVectorThreshold == 60

\* the recency bonus of evolved content and of the newest snapshot
MaxRecencyBonus == 20

\* latest timestamp of a snapshot
MaxStamp == 2

\* Date.now() at the search: later than every snapshot
Now == MaxStamp + 1

\* vectors of a project: none, or similarities of 0.60 and 0.59 for the
\* decisions "git" and "gits" and none for "git app"
NoVectors == [hash \in {} |-> 0]
SampleVectors ==
  {NoVectors,
   (calculateFragmentHash("decision", TextGit) :> 60)
     @@ (calculateFragmentHash("decision", TextGits) :> 59)}

\* source vectors of a project: none, or a similarity of 0.60 for the
\* chunk "git"
SampleSourceVectors == {NoVectors, calculateFileHash(TextGit) :> 60}

\* the candidates with the maximum recency bonus for every snapshot
candidatesOf_FlatBonus(store, typeFilter, timeRange, oldestTime) ==
  LET fragments(type, enabledBy, items, from, timestamp, bonus) ==
        IF typeFilter # NoFilter /\ enabledBy \notin typeFilter THEN <<>>
        ELSE [k \in 1..Len(items) |->
                [project |-> store.name, type |-> type,
                 content |-> items[k],
                 hash |-> calculateFragmentHash(type, items[k]),
                 text |-> items[k] \o <<" ">>,
                 from |-> from, timestamp |-> timestamp, bonus |-> bonus]]
      ofSnapshot(i) ==
        LET snapshot == store.sessionSnapshots[i]
            recencyBonus == MaxRecencyBonus * timeRange
        IN fragments("decision", "decision", snapshot.entries, i,
                     snapshot.timestamp, recencyBonus)
             \o fragments("gotcha", "insight", snapshot.gotchas, i,
                          snapshot.timestamp, recencyBonus)
      snapshots[i \in 0..Len(store.sessionSnapshots)] ==
        IF i = 0 THEN <<>> ELSE snapshots[i - 1] \o ofSnapshot(i)
      current ==
        fragments("decision", "decision", store.current, 0, Now,
                  MaxRecencyBonus * timeRange)
          \o fragments("gotcha", "insight", store.currentGotchas, 0, Now,
                       MaxRecencyBonus * timeRange)
      source ==
        IF typeFilter # NoFilter /\ "source" \notin typeFilter THEN <<>>
        ELSE [k \in 1..Len(store.chunks) |->
                [project |-> store.name, type |-> "source",
                 content |-> chunkDescription(k),
                 hash |-> calculateFileHash(store.chunks[k]),
                 text |-> <<"s", "r", "c", " ">> \o store.chunks[k],
                 from |-> -1, timestamp |-> Undefined, bonus |-> 0]]
  IN snapshots[Len(store.sessionSnapshots)] \o current \o source


\* the candidates of one project in the order searchMemory meets them: the
\* decisions, then the gotchas, of every snapshot in turn, those of current,
\* then the source chunks, each kind only if the type filter lets it
\* through.  content is the text of a fragment (what and why, issue and
\* solution) and the description of a chunk by path and lines; text is
\* what the query is matched against; enabledBy is the type the filter
\* must name; from is the index of the snapshot, 0 for current and -1 for
\* a source chunk; bonus is the recency bonus multiplied by timeRange
candidatesOf(store, typeFilter, timeRange, oldestTime) ==
  LET fragments(type, enabledBy, items, from, timestamp, bonus) ==
        IF typeFilter # NoFilter /\ enabledBy \notin typeFilter THEN <<>>
        ELSE [k \in 1..Len(items) |->
                [project |-> store.name, type |-> type,
                 content |-> items[k],
                 hash |-> calculateFragmentHash(type, items[k]),
                 text |-> items[k] \o <<" ">>,
                 from |-> from, timestamp |-> timestamp, bonus |-> bonus]]
      ofSnapshot(i) ==
        LET snapshot == store.sessionSnapshots[i]
            recencyBonus == (snapshot.timestamp - oldestTime) * MaxRecencyBonus
        IN fragments("decision", "decision", snapshot.entries, i,
                     snapshot.timestamp, recencyBonus)
             \o fragments("gotcha", "insight", snapshot.gotchas, i,
                          snapshot.timestamp, recencyBonus)
      snapshots[i \in 0..Len(store.sessionSnapshots)] ==
        IF i = 0 THEN <<>> ELSE snapshots[i - 1] \o ofSnapshot(i)
      current ==
        fragments("decision", "decision", store.current, 0, Now,
                  MaxRecencyBonus * timeRange)
          \o fragments("gotcha", "insight", store.currentGotchas, 0, Now,
                       MaxRecencyBonus * timeRange)
      source ==
        IF typeFilter # NoFilter /\ "source" \notin typeFilter THEN <<>>
        ELSE [k \in 1..Len(store.chunks) |->
                [project |-> store.name, type |-> "source",
                 content |-> chunkDescription(k),
                 hash |-> calculateFileHash(store.chunks[k]),
                 text |-> <<"s", "r", "c", " ">> \o store.chunks[k],
                 from |-> -1, timestamp |-> Undefined, bonus |-> 0]]
  IN snapshots[Len(store.sessionSnapshots)] \o current \o source

\* the loop accepting every vector-scored candidate
RECURSIVE searchCandidates_NoVectorThreshold(_, _, _, _, _, _, _, _)
searchCandidates_NoVectorThreshold(candidates, seenHashes, results, queryTerms, hasQueryVector, vectors, vectorThreshold, timeRange) ==
  IF candidates = <<>> THEN results
  ELSE LET c == Head(candidates)
           hasVector == hasQueryVector /\ c.hash \in DOMAIN vectors
           score == IF hasVector THEN vectors[c.hash]
                    ELSE scoreMatch(queryTerms, c.text) * 10
           minKeywordScore == Len(queryTerms) * 150
           threshold == IF hasVector THEN vectorThreshold
                        ELSE minKeywordScore
           accepted == c.hash \notin seenHashes
                         /\ (hasVector \/ score >= threshold)
       IN searchCandidates_NoVectorThreshold(
            Tail(candidates),
            IF accepted THEN seenHashes \cup {c.hash} ELSE seenHashes,
            IF accepted
            THEN Append(results,
                        [project |-> c.project, type |-> c.type,
                         content |-> c.content, hash |-> c.hash,
                         text |-> c.text, from |-> c.from,
                         timestamp |-> c.timestamp,
                         score |-> score * timeRange + c.bonus,
                         raw |-> score, hasVector |-> hasVector])
            ELSE results,
            queryTerms, hasQueryVector, vectors, vectorThreshold, timeRange)


\* the loop body of searchFragments, searchCurrentFragments and the source
\* chunk search over the candidates, with the hashes seen and the results so
\* far.  score is the score multiplied by timeRange; raw and hasVector
\* record how it was obtained
RECURSIVE searchCandidates(_, _, _, _, _, _, _, _)
searchCandidates(candidates, seenHashes, results, queryTerms, hasQueryVector, vectors, vectorThreshold, timeRange) ==
  IF candidates = <<>> THEN results
  ELSE LET c == Head(candidates)
           hasVector == hasQueryVector /\ c.hash \in DOMAIN vectors
           score == IF hasVector THEN vectors[c.hash]
                    ELSE scoreMatch(queryTerms, c.text) * 10
           minKeywordScore == Len(queryTerms) * 150
           threshold == IF hasVector THEN vectorThreshold
                        ELSE minKeywordScore
           accepted == c.hash \notin seenHashes /\ score >= threshold
       IN searchCandidates(
            Tail(candidates),
            IF accepted THEN seenHashes \cup {c.hash} ELSE seenHashes,
            IF accepted
            THEN Append(results,
                        [project |-> c.project, type |-> c.type,
                         content |-> c.content, hash |-> c.hash,
                         text |-> c.text, from |-> c.from,
                         timestamp |-> c.timestamp,
                         score |-> score * timeRange + c.bonus,
                         raw |-> score, hasVector |-> hasVector])
            ELSE results,
            queryTerms, hasQueryVector, vectors, vectorThreshold, timeRange)

\* the results left in the order they were found
sortByScore_Unsorted(results) == results

\* results.sort((a, b) => b.score - a.score)
RECURSIVE insertByScore(_, _)
insertByScore(sorted, e) ==
  IF sorted = <<>> THEN <<e>>
  ELSE IF sorted[Len(sorted)].score >= e.score
       THEN Append(sorted, e)
       ELSE Append(insertByScore(SubSeq(sorted, 1, Len(sorted) - 1), e),
                   sorted[Len(sorted)])

RECURSIVE sortByScore(_)
sortByScore(results) ==
  IF results = <<>> THEN <<>>
  ELSE insertByScore(sortByScore(SubSeq(results, 1, Len(results) - 1)),
                     results[Len(results)])

\* the vectors searchMemory scores the candidates of a project with: the
\* project's vectors if it has snapshots, and its source vectors
vectorsOf(store) ==
  (IF Len(store.sessionSnapshots) > 0 THEN store.vectors ELSE NoVectors)
    @@ store.sourceVectors

\* searchMemory requesting the query embedding whatever the length of the
\* query
searchMemory_AlwaysSemantic(index, query, projectFilter, typeFilter, all, jina, limit, vectorThreshold) ==
  LET threshold == IF vectorThreshold = Undefined THEN DefaultVectorThreshold
                   ELSE vectorThreshold
      queryTerms == queryTermsOf(query)
      useKeywordSearch == wordCountOf(query) <= 2
      requested == jina # "nokey"
      hasQueryVector == requested /\ jina = "ok"
      stamps == UNION {{index[p].sessionSnapshots[i].timestamp :
                          i \in 1..Len(index[p].sessionSnapshots)} :
                         p \in 1..Len(index)}
      oldestTime == Min(stamps \cup {Now})
      newestTime == Max(stamps \cup {0})
      timeRange == IF newestTime - oldestTime = 0 THEN 1
                   ELSE newestTime - oldestTime
      searched(p) == all \/ projectFilter = NoFilter
                       \/ index[p].name \in projectFilter
      found[p \in 0..Len(index)] ==
        IF p = 0 THEN <<>>
        ELSE IF ~searched(p) THEN found[p - 1]
        ELSE searchCandidates(
               candidatesOf(index[p], typeFilter, timeRange, oldestTime),
               {found[p - 1][k].hash : k \in 1..Len(found[p - 1])},
               found[p - 1], queryTerms, hasQueryVector, vectorsOf(index[p]),
               threshold, timeRange)
      accepted == found[Len(index)]
      results == sortByScore(accepted)
  IN [results |-> IF limit # Undefined /\ limit # 0
                  THEN slice0(results, limit) ELSE results,
      accepted |-> accepted,
      timeRange |-> timeRange, oldestTime |-> oldestTime,
      newestTime |-> newestTime,
      embeddingRequests |-> IF requested THEN 1 ELSE 0]

\* searchMemory scoring by vectors although the embedding request failed
searchMemory_FailureIgnored(index, query, projectFilter, typeFilter, all, jina, limit, vectorThreshold) ==
  LET threshold == IF vectorThreshold = Undefined THEN DefaultVectorThreshold
                   ELSE vectorThreshold
      queryTerms == queryTermsOf(query)
      useKeywordSearch == wordCountOf(query) <= 2
      requested == ~useKeywordSearch /\ jina # "nokey"
      hasQueryVector == requested
      stamps == UNION {{index[p].sessionSnapshots[i].timestamp :
                          i \in 1..Len(index[p].sessionSnapshots)} :
                         p \in 1..Len(index)}
      oldestTime == Min(stamps \cup {Now})
      newestTime == Max(stamps \cup {0})
      timeRange == IF newestTime - oldestTime = 0 THEN 1
                   ELSE newestTime - oldestTime
      searched(p) == all \/ projectFilter = NoFilter
                       \/ index[p].name \in projectFilter
      found[p \in 0..Len(index)] ==
        IF p = 0 THEN <<>>
        ELSE IF ~searched(p) THEN found[p - 1]
        ELSE searchCandidates(
               candidatesOf(index[p], typeFilter, timeRange, oldestTime),
               {found[p - 1][k].hash : k \in 1..Len(found[p - 1])},
               found[p - 1], queryTerms, hasQueryVector, vectorsOf(index[p]),
               threshold, timeRange)
      accepted == found[Len(index)]
      results == sortByScore(accepted)
  IN [results |-> IF limit # Undefined /\ limit # 0
                  THEN slice0(results, limit) ELSE results,
      accepted |-> accepted,
      timeRange |-> timeRange, oldestTime |-> oldestTime,
      newestTime |-> newestTime,
      embeddingRequests |-> IF requested THEN 1 ELSE 0]

\* searchMemory cutting the entries found down to the limit before sorting
\* them
searchMemory_LimitFirst(index, query, projectFilter, typeFilter, all, jina, limit, vectorThreshold) ==
  LET threshold == IF vectorThreshold = Undefined THEN DefaultVectorThreshold
                   ELSE vectorThreshold
      queryTerms == queryTermsOf(query)
      useKeywordSearch == wordCountOf(query) <= 2
      requested == ~useKeywordSearch /\ jina # "nokey"
      hasQueryVector == requested /\ jina = "ok"
      stamps == UNION {{index[p].sessionSnapshots[i].timestamp :
                          i \in 1..Len(index[p].sessionSnapshots)} :
                         p \in 1..Len(index)}
      oldestTime == Min(stamps \cup {Now})
      newestTime == Max(stamps \cup {0})
      timeRange == IF newestTime - oldestTime = 0 THEN 1
                   ELSE newestTime - oldestTime
      searched(p) == all \/ projectFilter = NoFilter
                       \/ index[p].name \in projectFilter
      found[p \in 0..Len(index)] ==
        IF p = 0 THEN <<>>
        ELSE IF ~searched(p) THEN found[p - 1]
        ELSE searchCandidates(
               candidatesOf(index[p], typeFilter, timeRange, oldestTime),
               {found[p - 1][k].hash : k \in 1..Len(found[p - 1])},
               found[p - 1], queryTerms, hasQueryVector, vectorsOf(index[p]),
               threshold, timeRange)
      accepted == found[Len(index)]
      results == sortByScore(IF limit # Undefined /\ limit # 0
                             THEN slice0(accepted, limit) ELSE accepted)
  IN [results |-> results,
      accepted |-> accepted,
      timeRange |-> timeRange, oldestTime |-> oldestTime,
      newestTime |-> newestTime,
      embeddingRequests |-> IF requested THEN 1 ELSE 0]

\* searchMemory forgetting the hashes seen from one project to the next
searchMemory_SeenPerProject(index, query, projectFilter, typeFilter, all, jina, limit, vectorThreshold) ==
  LET threshold == IF vectorThreshold = Undefined THEN DefaultVectorThreshold
                   ELSE vectorThreshold
      queryTerms == queryTermsOf(query)
      useKeywordSearch == wordCountOf(query) <= 2
      requested == ~useKeywordSearch /\ jina # "nokey"
      hasQueryVector == requested /\ jina = "ok"
      stamps == UNION {{index[p].sessionSnapshots[i].timestamp :
                          i \in 1..Len(index[p].sessionSnapshots)} :
                         p \in 1..Len(index)}
      oldestTime == Min(stamps \cup {Now})
      newestTime == Max(stamps \cup {0})
      timeRange == IF newestTime - oldestTime = 0 THEN 1
                   ELSE newestTime - oldestTime
      searched(p) == all \/ projectFilter = NoFilter
                       \/ index[p].name \in projectFilter
      found[p \in 0..Len(index)] ==
        IF p = 0 THEN <<>>
        ELSE IF ~searched(p) THEN found[p - 1]
        ELSE searchCandidates(
               candidatesOf(index[p], typeFilter, timeRange, oldestTime),
               {},
               found[p - 1], queryTerms, hasQueryVector, vectorsOf(index[p]),
               threshold, timeRange)
      accepted == found[Len(index)]
      results == sortByScore(accepted)
  IN [results |-> IF limit # Undefined /\ limit # 0
                  THEN slice0(results, limit) ELSE results,
      accepted |-> accepted,
      timeRange |-> timeRange, oldestTime |-> oldestTime,
      newestTime |-> newestTime,
      embeddingRequests |-> IF requested THEN 1 ELSE 0]


\* searchMemory(query, options) over the projects of the index, in the
\* order of the index; projectFilter is options.projects and typeFilter
\* options.types, NoFilter when absent; all is options.all; jina is
\* "nokey" without options.jinaApiKey, "fails" when the embedding request
\* fails and "ok" when it answers; limit is Undefined without options.limit;
\* vectorThreshold is the configured threshold times 100, Undefined when
\* none is configured.  The result holds the results returned, the entries
\* accepted in the order they were found, the time range used and the
\* number of embedding requests made.
searchMemory(index, query, projectFilter, typeFilter, all, jina, limit, vectorThreshold) ==
  LET threshold == IF vectorThreshold = Undefined THEN DefaultVectorThreshold
                   ELSE vectorThreshold
      queryTerms == queryTermsOf(query)
      useKeywordSearch == wordCountOf(query) <= 2
      requested == ~useKeywordSearch /\ jina # "nokey"
      hasQueryVector == requested /\ jina = "ok"
      stamps == UNION {{index[p].sessionSnapshots[i].timestamp :
                          i \in 1..Len(index[p].sessionSnapshots)} :
                         p \in 1..Len(index)}
      oldestTime == Min(stamps \cup {Now})
      newestTime == Max(stamps \cup {0})
      timeRange == IF newestTime - oldestTime = 0 THEN 1
                   ELSE newestTime - oldestTime
      searched(p) == all \/ projectFilter = NoFilter
                       \/ index[p].name \in projectFilter
      found[p \in 0..Len(index)] ==
        IF p = 0 THEN <<>>
        ELSE IF ~searched(p) THEN found[p - 1]
        ELSE searchCandidates(
               candidatesOf(index[p], typeFilter, timeRange, oldestTime),
               {found[p - 1][k].hash : k \in 1..Len(found[p - 1])},
               found[p - 1], queryTerms, hasQueryVector, vectorsOf(index[p]),
               threshold, timeRange)
      accepted == found[Len(index)]
      results == sortByScore(accepted)
  IN [results |-> IF limit # Undefined /\ limit # 0
                  THEN slice0(results, limit) ELSE results,
      accepted |-> accepted,
      timeRange |-> timeRange, oldestTime |-> oldestTime,
      newestTime |-> newestTime,
      embeddingRequests |-> IF requested THEN 1 ELSE 0]

\* the entry lists of a snapshot and of current
SnapshotEntryLists == {<<TextGit>>, <<TextGits, TextGitApp>>, SampleEntries}
CurrentEntryLists == {<<>>, <<TextGit>>, <<TextGitApp>>}

\* the searched stores: a project of no, one or two snapshots in any order
\* of time, its current, its vectors and one source chunk
SampleStores ==
  UNION {[name : {"p1"},
          sessionSnapshots : [1..n -> [timestamp : 1..MaxStamp,
                                       entries : SnapshotEntryLists,
                                       gotchas : {<<>>}]],
          current : CurrentEntryLists,
          currentGotchas : {<<>>},
          vectors : SampleVectors,
          sourceVectors : SampleSourceVectors,
          chunks : {<<TextGit>>}] : n \in {0, 1, 2}}

\* options.limit: none, or the number parsed from --limit
SampleLimits == {Undefined, 0, 1, 2}

\* searchMemory on any store and query, without filters
CallSearchMemory ==
  /\ lastCall.op = "load"
  /\ \E store \in SampleStores, query \in SampleQueries,
        jina \in {"nokey", "fails", "ok"}, limit \in SampleLimits,
        vectorThreshold \in {Undefined, 59} :
       /\ lastCall' =
            [op |-> "searchMemory", sessionId |-> "none", store |-> store,
             index |-> <<store>>, projectFilter |-> NoFilter,
             typeFilter |-> NoFilter, all |-> FALSE,
             query |-> query, jina |-> jina, limit |-> limit,
             vectorThreshold |-> vectorThreshold,
             result |-> searchMemory(<<store>>, query, NoFilter, NoFilter,
                                     FALSE, jina, limit, vectorThreshold)]
  /\ UNCHANGED <<pm, pvars, evars>>

\* the first project of a searched index: no snapshot or one, with a
\* decision and possibly the gotcha "git"; current with or without the
\* decision "git" and the gotcha "git"; one or two source chunks
FirstProjectStores ==
  UNION {[name : {"p1"},
          sessionSnapshots : [1..n -> [timestamp : 1..MaxStamp,
                                       entries : {<<TextGit>>, <<TextGits>>},
                                       gotchas : {<<>>, <<TextGit>>}]],
          current : {<<>>, <<TextGit>>},
          currentGotchas : {<<>>, <<TextGit>>},
          vectors : {NoVectors},
          sourceVectors : {NoVectors},
          chunks : {<<TextGit>>, <<TextGitApp>>, <<TextGit, TextGitApp>>}] :
           n \in {0, 1}}

\* a second project: one snapshot with the decision "git" and one source
\* chunk
SecondProjectStores ==
  [name : {"p2"},
   sessionSnapshots : [1..1 -> [timestamp : 1..MaxStamp,
                                entries : {<<TextGit>>},
                                gotchas : {<<>>}]],
   current : {<<>>},
   currentGotchas : {<<>>},
   vectors : {NoVectors},
   sourceVectors : {NoVectors},
   chunks : {<<TextGit>>, <<TextGitApp>>}]

\* the index of the memory bank: one project or two
SampleIndexes ==
  {<<store>> : store \in FirstProjectStores}
    \cup {<<first, second>> :
            first \in FirstProjectStores, second \in SecondProjectStores}

\* options.types: none, one type, the types the web server asks for, and
\* the empty list
SampleTypeFilters ==
  {NoFilter, {"decision"}, {"insight"}, {"gotcha"}, {"source"},
   {"decision", "insight", "gotcha", "quote"}, {}}

\* searchMemory for the query "git" or "go" on an index of one or two
\* projects, with or without a project filter, a type filter and --all
CallSearchProjects ==
  /\ lastCall.op = "load"
  /\ \E index \in SampleIndexes, query \in {TextGit, <<"g", "o">>},
        projectFilter \in {NoFilter, {"p1"}},
        typeFilter \in SampleTypeFilters, all \in BOOLEAN :
       /\ lastCall' =
            [op |-> "searchMemory", sessionId |-> "none", store |-> index[1],
             index |-> index, projectFilter |-> projectFilter,
             typeFilter |-> typeFilter, all |-> all,
             query |-> query, jina |-> "nokey", limit |-> Undefined,
             vectorThreshold |-> Undefined,
             result |-> searchMemory(index, query, projectFilter, typeFilter,
                                     all, "nokey", Undefined, Undefined)]
  /\ UNCHANGED <<pm, pvars, evars>>

(***************************************************************************)
(* Further operations of the memory-store specification                    *)
(***************************************************************************)
\* prose add <type> <content> on the memory held
CallAddFragment ==
  \E type \in AddTypes :
    /\ pm' = addFragment(pm, type)
    /\ lastCall' = [op |-> "addFragment", sessionId |-> "none"]
    /\ UNCHANGED <<pvars, evars>>

\* file sizes handed to the needs-work checks
SampleFileSizes == {0, 3, 4, 5}

\* memories loaded from disk: none, a new one, and one that records session
\* s1 with each kind of stored fileSize
SampleMemories ==
  {NoMemory, createProjectMemory}
    \cup {updateProjectMemory(createProjectMemory, emptyFragments, "s1",
                              1, 1, fileSize, Undefined) :
            fileSize \in {Undefined, 0, 4}}

\* the needs-work check made on the memory held, by
\* sessionNeedsProcessingFast and by the first pass of the evolve command
CallNeedsWork ==
  /\ lastCall.op = "load"
  /\ \E sessionId \in Sessions, currentFileSize \in SampleFileSizes,
        force \in BOOLEAN :
       /\ lastCall' =
            [op |-> "needsWork", sessionId |-> sessionId,
             currentFileSize |-> currentFileSize, force |-> force,
             fast |-> sessionNeedsProcessingFast(pm, sessionId, currentFileSize),
             firstPass |-> needsWork(pm, [sessionId |-> sessionId,
                                          modifiedTime |-> 1,
                                          fileSize |-> currentFileSize], force)]
  /\ UNCHANGED <<pm, pvars, evars>>

\* the messages of a window handed to vertical evolution
SampleMessages == parseSessionFile(RecordLine("1") \o RecordLine("2")).messages

\* evolveAllFragments on the messages of session s2, with any set of
\* failing collaborator calls
CallEvolveAllFragments ==
  /\ lastCall.op = "load"
  /\ pm = NoMemory
  /\ \E currentFragments \in SampleFragments,
        failed \in SUBSET CollaboratorTypes :
       /\ lastCall' =
            [op |-> "evolveAllFragments", sessionId |-> "s2",
             currentFragments |-> currentFragments, failed |-> failed,
             result |-> evolveAllFragmentsResult(currentFragments, "s2",
                                                 SampleMessages, failed)]
  /\ UNCHANGED <<pm, pvars, evars>>

\* timestamps of n snapshots: all different in any order, or old and new
\* ones with ties
SampleStamps(n) ==
  {stamp \in [1..n -> 1..n] :
     \A i, j \in 1..n : i # j => stamp[i] # stamp[j]}
    \cup [1..n -> 1..2]

\* the snapshots handed to evolveHorizontal: snapshot i is session i's
SampleSnapshots ==
  UNION {{[i \in 1..n |->
             [sessionId |-> i, timestamp |-> stamp[i],
              fragments |-> [t \in FragmentTypes |-> {<<i, 0>>}]]] :
            stamp \in SampleStamps(n)} : n \in 0..MaxSnapshots}

\* the baselines handed to evolveHorizontal
SampleBaselines ==
  {emptyFragments,
   [t \in FragmentTypes |-> IF t = "vocabulary" THEN Null ELSE {<<0, 0>>}],
   [t \in FragmentTypes |-> {<<0, 0>>}]}

\* the current FragmentSet of a linked project
LinkedFragments == [t \in FragmentTypes |-> {<<MaxSnapshots + 1, 0>>}]

\* config.externalFragments as the evolve command builds it: nothing, or the
\* current of one linked project
SampleExternal ==
  {<<>>, <<[projectName |-> "linked", fragments |-> LinkedFragments]>>}

\* what the prompt of the horizontal collaborator call for one fragment type
\* is built from: the baseline of that type when there is one, and the
\* decisions, insights and focus of every snapshot of the window
collaboratorInput(type, window, currentFragments, externalFragments) ==
  currentFragments[type]
    \cup UNION {window[i].fragments[t] :
                 i \in 1..Len(window), t \in {"decisions", "insights", "focus"}}

\* evolveHorizontal on any snapshots, window size and baseline, with the
\* narrative call failing or not, with or without the fragments of a linked
\* project
CallEvolveHorizontal ==
  /\ lastCall.op = "load"
  /\ pm = NoMemory
  /\ \E snapshots \in SampleSnapshots, windowSize \in {0, 1, 3},
        hasBaseline \in BOOLEAN, currentFragments \in SampleBaselines,
        externalFragments \in SampleExternal,
        failed \in {{}, {"narrative"}} :
       /\ hasBaseline \/ currentFragments = emptyFragments
       /\ LET result == evolveHorizontalResult(snapshots, windowSize,
                                               hasBaseline, currentFragments,
                                               failed)
          IN lastCall' =
               [op |-> "evolveHorizontal", sessionId |-> "none",
                snapshots |-> snapshots, windowSize |-> windowSize,
                hasBaseline |-> hasBaseline,
                currentFragments |-> currentFragments,
                externalFragments |-> externalFragments, failed |-> failed,
                result |-> result,
                inputs |-> [t \in result.calls |->
                              collaboratorInput(t, result.window,
                                                currentFragments,
                                                externalFragments)]]
  /\ UNCHANGED <<pm, pvars, evars>>

(***************************************************************************)
(* Specifications                                                          *)
(***************************************************************************)
Init == ParseInit /\ MemInit /\ EvolveInit

\* the evolve command running against a log that is being written
Next ==
  \/ \E s \in EvolveSessions : WriterAppend(s)
  \/ EvolveStart
  \/ EvolveSession
  \/ EvolveFinish
  \/ EvolveHorizontalDone

Spec == Init /\ [][Next]_vars

\* the sessions of the batch specification
BatchSessions == {"s1", "s2"}

\* the evolve command run over a project of several sessions whose writers
\* append whole records
BatchInit == ParseInit /\ MemInit /\ EvolveInitOver(BatchSessions)

BatchNext ==
  \/ \E s \in BatchSessions : WriterAppendLine(s)
  \/ EvolveStart
  \/ EvolveSession
  \/ EvolveFinish
  \/ EvolveHorizontalDone

SpecBatch == BatchInit /\ [][BatchNext]_vars

\* the batch specification with the command's own steps taken whenever they
\* stay possible: the event loop resumes the command when what it awaits
\* settles
SpecBatchFair ==
  /\ SpecBatch
  /\ WF_vars(EvolveSession)
  /\ WF_vars(EvolveFinish)
  /\ WF_vars(EvolveHorizontalDone)

\* one iteration of the loop over sessionsToProcess in which nothing
\* throws and every collaborator call returns
EvolvePass == EvolveSession /\ run'.pc = "vertical"

\* repeated runs of the evolve command in which nothing fails, over
\* sessions whose writers append whole records and may stop in the middle
\* of one
RepeatedNext ==
  \/ \E s \in BatchSessions : WriterAppendLine(s)
  \/ \E s \in BatchSessions : WriterAbandonsLine(s)
  \/ EvolveStart
  \/ EvolvePass
  \/ EvolveFinish
  \/ EvolveHorizontalDone

\* the command is run again and again and each run takes its steps; a
\* session step is possible exactly when a pass is, and the session steps
\* of RepeatedNext are the passes
SpecRepeatedFair ==
  /\ BatchInit
  /\ [][RepeatedNext]_vars
  /\ WF_vars(EvolveStart)
  /\ WF_vars(EvolveSession)
  /\ WF_vars(EvolveFinish)
  /\ WF_vars(EvolveHorizontalDone)

SpecParse == Init /\ [][ParseNext]_vars

\* the operations on a ProjectMemory value, called in any order
MemNext ==
  \/ CallUpdateProjectMemory
  \/ CallUpdateCurrentFragments
  \/ CallAddFragment

SpecMemory == Init /\ [][MemNext]_vars

\* the functions of memory.ts, evolve.ts and horizontal.ts that change no
\* state: one call with any arguments; the needs-work checks read a memory
\* loaded from disk, the evolution functions read none
CallsInit ==
  /\ ParseInit
  /\ EvolveInit
  /\ pm \in SampleMemories
  /\ lastCall = [op |-> "load", sessionId |-> "none"]

CallsNext ==
  \/ CallNeedsWork
  \/ CallEvolveAllFragments
  \/ CallEvolveHorizontal

SpecCalls == CallsInit /\ [][CallsNext]_vars

\* evolveVocabulary called window after window on a vocabulary that starts
\* as null
VocabularyInit ==
  /\ ParseInit
  /\ EvolveInit
  /\ pm = NoMemory
  /\ lastCall = [op |-> "load", sessionId |-> "none"]

VocabularyNext == CallEvolveVocabulary

SpecVocabulary == VocabularyInit /\ [][VocabularyNext]_vars

\* searchMemory called once on a store
SearchInit == VocabularyInit

SearchNext == CallSearchMemory

SpecSearch == SearchInit /\ [][SearchNext]_vars

\* searchMemory called once on an index of one or two projects, with
\* filters
SearchProjectsNext == CallSearchProjects

SpecSearchProjects == SearchInit /\ [][SearchProjectsNext]_vars

\* the log as it was when the earlier pass ran
EarlierLog == SubSeq(log, 1, earlier.len)

(***************************************************************************)
(* Parser claims                                                           *)
(***************************************************************************)

\* C1: for a log whose last line is an incomplete record, parseSessionFile
\* returns the events of all complete preceding records and a
\* processedBytes below the file length, equal to the offset where the
\* incomplete record starts; once the record is completed,
\* parseSessionFileFromOffset from that processedBytes returns its event.
C1_PartialLineSafety ==
  /\ (full # NoPass /\ TrailingPartial(log)) =>
       /\ full.processedBytes = LastStart(log)
       /\ full.processedBytes < Len(log)
       /\ Uuids(full.messages) = EventStarts(log)
  /\ (earlier # NoPass /\ incr # NoPass /\ TrailingPartial(EarlierLog)
        /\ IsEventRecord(log, LastStart(EarlierLog))) =>
       LastStart(EarlierLog) \in Uuids(incr.messages)

\* C2: both parse functions skip a malformed interior line and still return
\* the event of every parseable line after it.
C2_InteriorLinesSkipped ==
  /\ full # NoPass => EventStarts(log) \subseteq Uuids(full.messages)
  /\ incr # NoPass =>
       {o \in EventStarts(log) : o >= incr.from} \subseteq Uuids(incr.messages)

\* the log is exactly two complete event records and a trailing partial one
TwoRecordsAndPartial ==
  /\ Len(log) \in 9..11
  /\ EventStarts(log) = {0, 4}
  /\ LineStarts(log) = {0, 4, 8}
  /\ TrailingPartial(log)

\* C7 as stated: parseSessionFile returns exactly 2 events and processedBytes
\* is the offset of the 2nd record's terminating newline.
C7_OffsetOfNewline ==
  (full # NoPass /\ TwoRecordsAndPartial) =>
     /\ Len(full.messages) = 2
     /\ full.processedBytes = LineEnd(log, 4)

\* C7 amended: parseSessionFile returns exactly 2 events and processedBytes
\* is the offset just past the 2nd record's terminating newline, where the
\* partial record starts.
C7_OffsetPastNewline ==
  (full # NoPass /\ TwoRecordsAndPartial) =>
     /\ Len(full.messages) = 2
     /\ full.processedBytes = LineEnd(log, 4) + 1
     /\ full.processedBytes = LastStart(log)

C7_Witness ==
  /\ full # NoPass
  /\ TwoRecordsAndPartial
  /\ full.processedBytes = 8

\* the messages of a result as a bag
RECURSIVE BagOf(_)
BagOf(messages) ==
  IF messages = <<>> THEN EmptyBag
  ELSE BagOf(Tail(messages)) (+) SetToBag({Head(messages)})

\* C8: the events of an earlier pass over a prefix of the log together with
\* the events of parseSessionFileFromOffset from that pass's processedBytes
\* are, as a multiset, the events of parseSessionFile on the whole log, and
\* both report the same processedBytes.
C8_OffsetParseEquivalent ==
  (earlier # NoPass /\ full # NoPass /\ incr # NoPass) =>
     /\ BagOf(earlier.messages) (+) BagOf(incr.messages) = BagOf(full.messages)
     /\ incr.processedBytes = full.processedBytes

C8_Witness ==
  /\ earlier # NoPass /\ full # NoPass /\ incr # NoPass
  /\ earlier.len < Len(log)
  /\ earlier.messages # <<>>
  /\ incr.messages # <<>>
  /\ TrailingPartial(EarlierLog)
  /\ incr.processedBytes > earlier.processedBytes

(***************************************************************************)
(* Memory-store claims                                                     *)
(***************************************************************************)
\* the entries of a list that belong to one session, in list order
OfSession(list, sessionId) ==
  SelectSeq(list, LAMBDA e : e.sessionId = sessionId)

\* C9: after any sequence of updateProjectMemory calls, sessionSnapshots and
\* processedSessions hold at most one entry per sessionId, and recording a
\* session that already has a Snapshot replaces it in place: the list keeps
\* its length and the session keeps its position.
C9_OnePerSession ==
  /\ [](\A sid \in Sessions :
          /\ Len(OfSession(pm.sessionSnapshots, sid)) <= 1
          /\ Len(OfSession(pm.processedSessions, sid)) <= 1)
  /\ [][(/\ lastCall'.op = "updateProjectMemory"
         /\ findIndex(pm.sessionSnapshots, lastCall'.sessionId) # 0) =>
        (/\ Len(pm'.sessionSnapshots) = Len(pm.sessionSnapshots)
         /\ findIndex(pm'.sessionSnapshots, lastCall'.sessionId)
              = findIndex(pm.sessionSnapshots, lastCall'.sessionId))]_vars

\* s1 was recorded, then s2, then s1 again
C9_Witness ==
  /\ lastCall = [op |-> "updateProjectMemory", sessionId |-> "s1"]
  /\ Len(pm.sessionSnapshots) = 2
  /\ pm.sessionSnapshots[1].sessionId = "s1"
  /\ pm.sessionSnapshots[2].sessionId = "s2"
  /\ Len(pm.processedSessions) = 2

\* C10: updateProjectMemory for session A keeps every other session's
\* Snapshot and ProcessingState in the lists with unchanged content, no
\* session loses its Snapshot, and updateCurrentFragments leaves both lists
\* unchanged.
C10_OtherSessionsUntouched ==
  [][/\ lastCall'.op = "updateProjectMemory" =>
          \A sid \in Sessions \ {lastCall'.sessionId} :
             /\ OfSession(pm'.sessionSnapshots, sid)
                  = OfSession(pm.sessionSnapshots, sid)
             /\ OfSession(pm'.processedSessions, sid)
                  = OfSession(pm.processedSessions, sid)
     /\ \A sid \in Sessions :
          findIndex(pm.sessionSnapshots, sid) # 0 =>
             findIndex(pm'.sessionSnapshots, sid) # 0
     /\ lastCall'.op = "updateCurrentFragments" =>
          /\ pm'.sessionSnapshots = pm.sessionSnapshots
          /\ pm'.processedSessions = pm.processedSessions]_vars

\* s2 has just been recorded while s1 holds a Snapshot with content
C10_Witness ==
  /\ lastCall = [op |-> "updateProjectMemory", sessionId |-> "s2"]
  /\ findIndex(pm.sessionSnapshots, "s1") # 0
  /\ findIndex(pm.sessionSnapshots, "s2") # 0
  /\ pm.sessionSnapshots[findIndex(pm.sessionSnapshots, "s1")].fragments
       # emptyFragments
  /\ pm.current # emptyFragments

(***************************************************************************)
(* Evolve claims                                                           *)
(***************************************************************************)
\* the ProcessingState persisted for a session, NoState when there is none
StoredState(d, sid) == getSessionProcessingState(d, sid)

\* the byteOffset (fileSize) persisted for a session, Undefined when none
StoredOffset(d, sid) ==
  IF StoredState(d, sid) = NoState THEN Undefined
  ELSE StoredState(d, sid).fileSize

\* this step is an evolve pass over session sid
PassOver(sid) ==
  /\ run.pc = "vertical"
  /\ run.next <= Len(run.todo)
  /\ run.todo[run.next].sessionId = sid
  /\ run'.pc = "vertical"
  /\ run'.next = run.next + 1

\* C3: a record that was a malformed trailing line when a pass ran is never
\* skipped: once it is completed, the persisted cursor does not lie past its
\* start unless its event has been delivered to vertical evolution.
C3_DeferredNeverSkipped ==
  \A sid \in EvolveSessions : \A o \in deferred[sid] :
    (IsEventRecord(files[sid], o) /\ o \notin delivered[sid]) =>
       StoredOffset(disk, sid) <= o

\* C4: the byteOffset stored for a session never decreases, and a stored
\* ProcessingState is never removed.
C4_OffsetMonotonic ==
  [][\A sid \in EvolveSessions :
       StoredOffset(disk', sid) >= StoredOffset(disk, sid)]_vars

\* the cursor has advanced twice and stands before a trailing partial line
C4_Witness ==
  /\ StoredState(disk, "s1") # NoState
  /\ StoredState(disk, "s1").messageCount = 1
  /\ StoredOffset(disk, "s1") = 5
  /\ Len(files["s1"]) > 5
  /\ seen["s1"].len = Len(files["s1"])
  /\ seen["s1"].new = 0

\* the latest pass over sid read the log as the run had discovered it
SettledPass(p) == p # NoPass /\ p.size = p.len

\* the log of sid has not changed since the previous pass over it, and the
\* running command has discovered it at that same length
Unchanged(sid) ==
  /\ SettledPass(seen[sid])
  /\ seen[sid].len = Len(files[sid])
  /\ run.todo[run.next].fileSize = Len(files[sid])

\* C5: a pass over a log that has not changed since the previous pass
\* produces zero new events and leaves the ProcessingState (messageCount,
\* fileSize, modifiedTime) unchanged.
C5_Idempotent ==
  [][\A sid \in EvolveSessions :
       (PassOver(sid) /\ Unchanged(sid)) =>
          /\ seen'[sid].new = 0
          /\ StoredState(disk', sid) = StoredState(disk, sid)]_vars

\* C6: a pass that yields zero new events writes the parser's processedBytes
\* as byteOffset, and afterwards a log that ends on a complete line is not
\* selected by the needs-work check until it grows.
C6_ZeroEventPassRecorded ==
  /\ [][\A sid \in EvolveSessions :
          (PassOver(sid) /\ seen'[sid].new = 0
             /\ SettledPass(seen'[sid])) =>
             StoredOffset(disk', sid) = seen'[sid].processedBytes]_vars
  /\ [](\A sid \in EvolveSessions :
          (/\ SettledPass(seen[sid])
           /\ seen[sid].new = 0
           /\ seen[sid].len = Len(files[sid])
           /\ files[sid] # <<>>
           /\ files[sid][Len(files[sid])] = LF) =>
             ~needsWork(disk, [sessionId |-> sid, modifiedTime |-> mtime[sid],
                               fileSize |-> Len(files[sid])], FALSE))

(***************************************************************************)
(* Claims on current and on the needs-work check                           *)
(***************************************************************************)
\* C11 as stated: updateProjectMemory leaves current unchanged, and current
\* changes only when a result of horizontal evolution is stored with
\* updateCurrentFragments.
C11_CurrentOnlyByHorizontal ==
  [][/\ lastCall'.op = "updateProjectMemory" => pm'.current = pm.current
     /\ pm'.current # pm.current =>
          lastCall'.op = "updateCurrentFragments"]_vars

\* C11 amended: updateProjectMemory leaves current unchanged, and current
\* changes only by updateCurrentFragments or by the add command's
\* addFragment, which writes the new item into current directly.
C11_CurrentByHorizontalOrAdd ==
  [][/\ lastCall'.op = "updateProjectMemory" => pm'.current = pm.current
     /\ pm'.current # pm.current =>
          lastCall'.op \in {"updateCurrentFragments", "addFragment"}]_vars

\* a session with content was recorded while current holds other content
C11_Witness ==
  /\ lastCall.op = "updateProjectMemory"
  /\ pm.current # emptyFragments
  /\ \E i \in 1..Len(pm.sessionSnapshots) :
       /\ pm.sessionSnapshots[i].sessionId = lastCall.sessionId
       /\ pm.sessionSnapshots[i].fragments # emptyFragments
       /\ pm.sessionSnapshots[i].fragments # pm.current

\* a > b as JavaScript evaluates it when b may be undefined
Greater(a, b) == b # Undefined /\ a > b

\* the ProcessingState the latest needs-work check looked up
CheckedState == getSessionProcessingState(pm, lastCall.sessionId)

\* C12 as stated: both needs-work checks return true exactly when no
\* ProcessingState exists, or currentFileSize is greater than the stored
\* byteOffset, or the caller forces it (only the first pass of the evolve
\* command can be forced).
C12_NeedsWorkAsStated ==
  lastCall.op = "needsWork" =>
    LET grown == \/ CheckedState = NoState
                 \/ Greater(lastCall.currentFileSize, CheckedState.fileSize)
    IN /\ lastCall.fast = grown
       /\ lastCall.firstPass = (grown \/ lastCall.force)

\* C12 amended: for a log of non-zero size both checks return true exactly
\* when no ProcessingState exists, or the stored state has no byteOffset
\* (absent or 0), or currentFileSize is greater than the stored byteOffset,
\* or, in the first pass of the evolve command, the caller forces it; for a
\* zero-size log the first pass returns false whatever the state and the
\* force option, and sessionNeedsProcessingFast returns true exactly when
\* there is no state or no stored byteOffset.
C12_NeedsWork ==
  lastCall.op = "needsWork" =>
    LET noOffset == \/ CheckedState = NoState
                    \/ ~Truthy(CheckedState.fileSize)
        grown == \/ noOffset
                 \/ Greater(lastCall.currentFileSize, CheckedState.fileSize)
    IN /\ lastCall.fast = grown
       /\ lastCall.firstPass =
            (lastCall.currentFileSize # 0 /\ (grown \/ lastCall.force))

\* an up-to-date session is not selected, a grown one is
C12_Witness ==
  /\ lastCall.op = "needsWork"
  /\ CheckedState # NoState
  /\ CheckedState.fileSize = 4
  /\ lastCall.currentFileSize = 4
  /\ ~lastCall.force
  /\ ~lastCall.fast
  /\ ~lastCall.firstPass
  /\ sessionNeedsProcessingFast(pm, lastCall.sessionId, 5)

(***************************************************************************)
(* Claims on vertical and horizontal evolution                             *)
(***************************************************************************)
\* C13: in evolveAllFragments a fragment type whose collaborator call fails
\* keeps its prior value and has an error recorded, while every other
\* collaborator-evolved type takes its newly evolved value.
C13_VerticalBulkhead ==
  lastCall.op = "evolveAllFragments" =>
    \A t \in CollaboratorTypes :
      IF t \in lastCall.failed
      THEN /\ lastCall.result.fragments[t] = lastCall.currentFragments[t]
           /\ t \in lastCall.result.errors
      ELSE /\ lastCall.result.fragments[t]
                = lastCall.currentFragments[t]
                    \cup Evidence("s2", SampleMessages)
           /\ t \notin lastCall.result.errors

\* the narrative call alone failed on fragments that had content
C13_Witness ==
  /\ lastCall.op = "evolveAllFragments"
  /\ lastCall.failed = {"narrative"}
  /\ lastCall.currentFragments # emptyFragments
  /\ lastCall.result.fragments["narrative"]
       = lastCall.currentFragments["narrative"]
  /\ \A t \in {"decisions", "insights", "focus"} :
       /\ lastCall.result.fragments[t] # lastCall.currentFragments[t]
       /\ <<"s2", 4>> \in lastCall.result.fragments[t]

\* C17: evolveHorizontal over exactly one Snapshot with no baseline returns
\* the Snapshot's fragments unchanged and calls no collaborator.
C17_Bootstrap ==
  (/\ lastCall.op = "evolveHorizontal"
   /\ Len(lastCall.snapshots) = 1
   /\ ~lastCall.hasBaseline) =>
     /\ ~lastCall.result.threw
     /\ lastCall.result.current = lastCall.snapshots[1].fragments
     /\ lastCall.result.calls = {}

\* one snapshot with a vocabulary, no baseline, and a collaborator that
\* would have failed
C17_Witness ==
  /\ lastCall.op = "evolveHorizontal"
  /\ Len(lastCall.snapshots) = 1
  /\ ~lastCall.hasBaseline
  /\ lastCall.failed = {"narrative"}
  /\ lastCall.result.current["vocabulary"] # Null
  /\ lastCall.result.sessionsIncluded = 1

\* the elements of a sequence
Range(seq) == {seq[i] : i \in 1..Len(seq)}

\* the window size evolveHorizontal was called with, 3 when none was given
CalledWindowSize ==
  IF lastCall.windowSize = 0 THEN 3 ELSE lastCall.windowSize

\* C19: evolveHorizontal sorts the candidate Snapshots newest-first and
\* uses exactly the first min(windowSize, n) of them, windowSize defaulting
\* to 3: no Snapshot left out is newer than one used, and the consolidated
\* fragments draw on the baseline and the window only.
C19_WindowNewestFirst ==
  lastCall.op = "evolveHorizontal" =>
    LET all == lastCall.snapshots
        w == lastCall.result.window
    IN /\ Len(w) = Min({CalledWindowSize, Len(all)})
       /\ Range(w) \subseteq Range(all)
       /\ Cardinality(Range(w)) = Len(w)
       /\ \A i \in 1..(Len(w) - 1) : w[i].timestamp >= w[i + 1].timestamp
       /\ \A x \in Range(w) : \A y \in Range(all) \ Range(w) :
            x.timestamp >= y.timestamp
       /\ (~lastCall.result.threw /\ lastCall.result.calls # {}) =>
            /\ lastCall.result.sessionsIncluded = Len(w)
            /\ \A t \in CollaboratorTypes :
                 lastCall.result.current[t]
                   = (IF lastCall.hasBaseline
                      THEN lastCall.currentFragments[t] ELSE {})
                     \cup {<<x.sessionId, 0>> : x \in Range(w)}

\* windowSize 3 over 5 Snapshots with distinct timestamps, the oldest two
\* given first
C19_Witness ==
  /\ lastCall.op = "evolveHorizontal"
  /\ lastCall.windowSize = 3
  /\ Len(lastCall.snapshots) = 5
  /\ {lastCall.snapshots[i].timestamp : i \in 1..5} = 1..5
  /\ lastCall.snapshots[1].timestamp = 1
  /\ lastCall.snapshots[2].timestamp = 2
  /\ ~lastCall.result.threw
  /\ {x.timestamp : x \in Range(lastCall.result.window)} = {3, 4, 5}


(***************************************************************************)
(* C14: horizontal failures                                                *)
(***************************************************************************)
\* the step of the evolve command on which a horizontal pass ends
HorizontalPassEnds == run.pc = "horizontal" /\ run'.pc = "idle"

\* the current a horizontal pass is to write when the calls of the types in
\* failed fail: the baseline for those, the consolidation for the others
CurrentWithBaselineFor(failed) ==
  [t \in FragmentTypes |->
     IF t \in failed THEN disk.current[t]
     ELSE consolidate(run.snapshots, TRUE, disk.current)[t]]

\* C14: a horizontal pass in which the collaborator calls of some fragment
\* types fail or time out still completes and writes current, keeping the
\* baseline for the failed types and the consolidation for the others.
C14_HorizontalFailureNonFatal ==
  [][HorizontalPassEnds => disk'.current = CurrentWithBaselineFor(run.failed)]_vars

(***************************************************************************)
(* C18: the first horizontal pass of the evolve command                    *)
(***************************************************************************)
\* C18: in the evolve command, the first horizontal pass of a new project
\* (current still empty) over exactly one snapshot adopts that snapshot's
\* fragments as current, whatever the collaborator would have answered.
C18_FirstPassAdoptsSnapshot ==
  [][(HorizontalPassEnds /\ Len(run.snapshots) = 1
        /\ disk.current = emptyFragments /\ Len(disk.sessionSnapshots) = 1)
       => disk'.current = run.snapshots[1].fragments]_vars


(***************************************************************************)
(* C16: a failure inside a batch run                                       *)
(***************************************************************************)
\* C16: in a batch run a failure in one session aborts only that session:
\* while a later session of the batch is still to be processed, no step
\* of the command ends the run.
C16_FailureAbortsOnlyOne ==
  [][(run.pc = "vertical" /\ run.next < Len(run.todo)) => run'.pc # "idle"]_vars

(***************************************************************************)
(* C20: the snapshots a horizontal pass of the evolve command takes        *)
(***************************************************************************)
\* the step of the evolve command on which a horizontal pass starts
HorizontalPassStarts == run.pc = "vertical" /\ run'.pc = "horizontal"

\* used are the DefaultWindowSize most recent of all
MostRecent(all, used) ==
  /\ used \subseteq all
  /\ Cardinality(used) = Min({DefaultWindowSize, Cardinality(all)})
  /\ \A x \in used : \A y \in all \ used : x.timestamp >= y.timestamp

SnapshotsOfRun ==
  {x \in Range(disk.sessionSnapshots) :
     \E i \in 1..Len(run.todo) : run.todo[i].sessionId = x.sessionId}

C15_PassTerminates == (run.pc # "idle") ~> (run.pc = "idle")


(***************************************************************************)
(* C21: the vocabulary in horizontal evolution                             *)
(***************************************************************************)
\* the last call was evolveHorizontal and took the general path: the
\* collaborators were called and all answered
GeneralHorizontalCall ==
  /\ lastCall.op = "evolveHorizontal"
  /\ lastCall.hasBaseline
  /\ ~lastCall.result.threw
  /\ lastCall.result.calls # {}

\* C21: in the general (non-bootstrap) case of horizontal evolution the
\* vocabulary of the new baseline equals the vocabulary of the baseline
\* before the pass.
C21_VocabularyCarriedOver ==
  GeneralHorizontalCall =>
    lastCall.result.current["vocabulary"] = lastCall.currentFragments["vocabulary"]


(***************************************************************************)
(* C22: linked projects in horizontal evolution                            *)
(***************************************************************************)
\* C22: when the project has linked external projects, every collaborator
\* call of its horizontal pass receives the current FragmentSets of the
\* linked projects as part of its input.
C22_LinkedFragmentsReceived ==
  lastCall.op = "evolveHorizontal" =>
    \A t \in lastCall.result.calls :
      \A i \in 1..Len(lastCall.externalFragments) :
        lastCall.externalFragments[i].fragments[t] \subseteq lastCall.inputs[t]


(***************************************************************************)
(* C23: evolveVocabulary                                                   *)
(***************************************************************************)
\* the number of times token occurs among the tokens of the window's text
Occurrences(token, contents) ==
  LET tokens == tokensOf(allTextOf(contents))
  IN Cardinality({i \in 1..Len(tokens) : tokens[i] = token})

\* the count recorded for term in a vocabulary, 0 when it has none
CountIn(vocabulary, term) ==
  IF term \in DOMAIN vocabulary.terms THEN vocabulary.terms[term]
  ELSE Number(0)

\* C23: evolveVocabulary makes no collaborator call and merges additively:
\* every term's resulting count is the prior count plus the number of
\* occurrences of the token in the window's text, and no term, technology
\* or file recorded before is removed or decreased.
C23_VocabularyAdditive ==
  lastCall.op = "evolveVocabulary" =>
    LET prior == IF lastCall.currentState = NoVocabulary THEN emptyVocabulary
                 ELSE lastCall.currentState
        data == lastCall.data
    IN /\ lastCall.collaboratorCalls = 0
       /\ \A term \in DOMAIN data.terms :
            /\ ~CountIn(prior, term).text =>
                 data.terms[term]
                   = Number(CountIn(prior, term).n
                              + Occurrences(term, lastCall.contents))
       /\ \A term \in DOMAIN prior.terms :
            /\ term \in DOMAIN data.terms
            /\ data.terms[term].n >= prior.terms[term].n
       /\ prior.technologies \subseteq data.technologies
       /\ prior.files \subseteq data.files


(***************************************************************************)
(* C24: the order of a batch                                               *)
(***************************************************************************)
\* the step on which the evolve command selects its batch
BatchSelected == run.pc = "idle" /\ run'.pc = "vertical"

\* the sessions discovered that need work under the given --force
NeedingWork(force) ==
  {x \in Range(discoverSessionFiles) : needsWork(disk, x, force)}

\* C24: the batch of an evolve run is in non-decreasing order of file
\* modification time, and when the limit cuts it, it holds the
\* oldest-modified sessions needing work: for the run's --force and
\* --limit, the batch is as many sessions needing work as the limit
\* allows, and none left out is older than one taken.  The loop takes the
\* batch in this order.
C24_OldestFirst ==
  [][/\ BatchSelected =>
          \E force \in BOOLEAN, limit \in Limits :
            LET need == NeedingWork(force)
                todo == run'.todo
            IN /\ Range(todo) \subseteq need
               /\ Cardinality(Range(todo)) = Len(todo)
               /\ Len(todo) = Min({limit, Cardinality(need)})
               /\ \A i \in 1..(Len(todo) - 1) :
                    todo[i].modifiedTime <= todo[i + 1].modifiedTime
               /\ \A x \in Range(todo) : \A y \in need \ Range(todo) :
                    x.modifiedTime <= y.modifiedTime
     /\ (run.pc = "vertical" /\ run'.pc = "vertical") =>
          /\ run'.todo = run.todo
          /\ run'.next \in {run.next, run.next + 1}]_vars

\* a run has just selected one session although a more recently modified
\* one needs work too
C24_Witness ==
  /\ run.pc = "vertical"
  /\ run.next = 1
  /\ Len(run.todo) = 1
  /\ \E y \in NeedingWork(FALSE) :
       /\ y.sessionId # run.todo[1].sessionId
       /\ y.modifiedTime > run.todo[1].modifiedTime


(***************************************************************************)
(* C25..C30: searchMemory                                                  *)
(***************************************************************************)
\* the results the last call of searchMemory returned
Returned == lastCall.result.results

\* C25: for a query of one or two words searchMemory scores every candidate
\* by keyword matching only: no query embedding is requested and no
\* returned result's score comes from vector similarity, even when
\* embeddings exist for the candidates.
C25_ShortQueryKeywordOnly ==
  (lastCall.op = "searchMemory" /\ wordCountOf(lastCall.query) <= 2) =>
    /\ lastCall.result.embeddingRequests = 0
    /\ \A i \in 1..Len(Returned) :
         /\ ~Returned[i].hasVector
         /\ Returned[i].raw
              = 10 * scoreMatch(queryTermsOf(lastCall.query), Returned[i].text)

\* a one-word query with a key that answers, on a store of two snapshots;
\* two results are returned, one of an entry that has an embedding
C25_Witness ==
  /\ lastCall.op = "searchMemory"
  /\ wordCountOf(lastCall.query) = 1
  /\ Len(queryTermsOf(lastCall.query)) = 1
  /\ lastCall.jina = "ok"
  /\ Len(lastCall.store.sessionSnapshots) = 2
  /\ Len(Returned) >= 2
  /\ \E i \in 1..Len(Returned) :
       Returned[i].hash \in DOMAIN lastCall.store.vectors


\* the last call of searchMemory scored every candidate by keywords and
\* returned all it accepted
KeywordSearch ==
  /\ lastCall.op = "searchMemory"
  /\ lastCall.limit = 0
  /\ wordCountOf(lastCall.query) <= 2 \/ lastCall.jina # "ok"

\* the texts of the entries searched: those of the snapshots and of current
SearchedEntries ==
  UNION {Range(lastCall.store.sessionSnapshots[i].entries) :
           i \in 1..Len(lastCall.store.sessionSnapshots)}
    \cup Range(lastCall.store.current)

\* C26: a keyword-scored entry is accepted exactly when every query term
\* matches it, a substring occurrence of the term counting as a match; an
\* entry missing any query term is rejected.
C26_AcceptedIffEveryTermMatches ==
  KeywordSearch =>
    \A entry \in SearchedEntries :
      (\E i \in 1..Len(Returned) :
         Returned[i].from >= 0 /\ Returned[i].content = entry)
        <=> \A term \in Range(queryTermsOf(lastCall.query)) :
              includes(lowerCase(entry), term)


\* the similarity threshold in force at the last call, times 100
ConfiguredThreshold ==
  IF lastCall.vectorThreshold = Undefined THEN DefaultVectorThreshold
  ELSE lastCall.vectorThreshold

\* C27: a vector-scored entry is returned only if its cosine similarity
\* with the query is at least the configured similarity threshold (0.6 by
\* default), that is a raw score of at least the threshold times 100.
C27_VectorThreshold ==
  lastCall.op = "searchMemory" =>
    \A i \in 1..Len(Returned) :
      Returned[i].hasVector =>
        /\ Returned[i].raw = vectorsOf(lastCall.store)[Returned[i].hash]
        /\ Returned[i].raw >= ConfiguredThreshold

\* with the default threshold an entry of similarity 0.60 is returned and
\* the searched entry of similarity 0.59 is not
C27_Witness ==
  /\ lastCall.op = "searchMemory"
  /\ lastCall.vectorThreshold = Undefined
  /\ lastCall.limit = 0
  /\ \E i \in 1..Len(Returned) :
       Returned[i].hasVector /\ Returned[i].raw = DefaultVectorThreshold
  /\ TextGits \in SearchedEntries
  /\ \A i \in 1..Len(Returned) : Returned[i].content # TextGits


\* the timestamps of the snapshots searched
SearchedStamps ==
  {lastCall.store.sessionSnapshots[i].timestamp :
     i \in 1..Len(lastCall.store.sessionSnapshots)}

\* the results returned that come from a snapshot
FromSnapshots == {r \in Range(Returned) : r.from >= 1}

\* the recency bonus a result received, multiplied by the time range the
\* search divided by
BonusTimesRange(r) == r.score - r.raw * lastCall.result.timeRange

\* the maximum bonus on the same scale
MaxBonusTimesRange == MaxRecencyBonus * lastCall.result.timeRange

C29_CurrentMaxBonus ==
  lastCall.op = "searchMemory" =>
    \A r \in Range(Returned) :
      r.content \in Range(lastCall.store.current)
        => BonusTimesRange(r) = MaxBonusTimesRange

\* C30: of two returned entries with equal raw match score that come from
\* different snapshots, the one from the more recent snapshot has a final
\* score at least the other's and stands no lower in the result list.
C30_RecencyOrdering ==
  lastCall.op = "searchMemory" =>
    \A i, j \in 1..Len(Returned) :
      (/\ Returned[i].from >= 1
       /\ Returned[j].from >= 1
       /\ Returned[i].from # Returned[j].from
       /\ Returned[i].raw = Returned[j].raw
       /\ Returned[i].timestamp > Returned[j].timestamp)
        => /\ Returned[i].score >= Returned[j].score
           /\ i < j

\* two entries of equal raw score are returned, the one found first coming
\* from the older snapshot
C30_Witness ==
  /\ lastCall.op = "searchMemory"
  /\ \E i, j \in 1..Len(Returned) :
       /\ Returned[i].from > Returned[j].from
       /\ Returned[j].from >= 1
       /\ Returned[i].raw = Returned[j].raw
       /\ Returned[i].timestamp > Returned[j].timestamp


(***************************************************************************)
(* C31..C33, C39, C40: searchMemory                                        *)
(***************************************************************************)
\* the entries the last call of searchMemory accepted, in the order found
Accepted == lastCall.result.accepted

\* the results returned are in non-increasing order of final score
SortedByScore ==
  \A i, j \in 1..Len(Returned) :
    i < j => Returned[i].score >= Returned[j].score

\* the results returned are n of the accepted entries, none of the others
\* scoring higher than a returned one
HighestScoring(n) ==
  /\ Len(Returned) = n
  /\ Range(Returned) \subseteq Range(Accepted)
  /\ \A i, j \in 1..n : i # j => Returned[i] # Returned[j]
  /\ \A a \in Range(Accepted) \ Range(Returned), r \in Range(Returned) :
       a.score <= r.score

\* C32 as stated: the results are in non-increasing order of final score
\* and, whenever a limit is requested, they are exactly the
\* min(limit, number of accepted entries) highest-scoring accepted entries.
C32_SortedAndLimitedAsStated ==
  lastCall.op = "searchMemory" =>
    /\ SortedByScore
    /\ lastCall.limit # Undefined
         => HighestScoring(Min({lastCall.limit, Len(Accepted)}))

\* C32: the results are in non-increasing order of final score; when a
\* positive limit is requested they are exactly the min(limit, number of
\* accepted entries) highest-scoring accepted entries, and without a limit
\* or with a limit of 0 they are all the accepted entries.
C32_SortedAndLimited ==
  lastCall.op = "searchMemory" =>
    /\ SortedByScore
    /\ HighestScoring(IF lastCall.limit = Undefined \/ lastCall.limit = 0
                      THEN Len(Accepted)
                      ELSE Min({lastCall.limit, Len(Accepted)}))

\* a limit of 1 cuts three accepted entries of different scores down to
\* the highest-scoring one, which was not the first found
C32_Witness ==
  /\ lastCall.op = "searchMemory"
  /\ lastCall.limit = 1
  /\ Len(Accepted) >= 3
  /\ Len(Returned) = 1
  /\ Returned[1] # Accepted[1]
  /\ \E a \in Range(Accepted) : a.score < Returned[1].score


\* C33: when the embedding request for the query fails, searchMemory still
\* returns: no result is scored by vector similarity and the results are
\* exactly those of the same search made by keyword scoring alone.
C33_EmbeddingFailureDegrades ==
  (lastCall.op = "searchMemory" /\ lastCall.jina = "fails") =>
    /\ \A i \in 1..Len(Returned) : ~Returned[i].hasVector
    /\ Returned = searchMemory(lastCall.index, lastCall.query,
                               lastCall.projectFilter, lastCall.typeFilter,
                               lastCall.all, "nokey", lastCall.limit,
                               lastCall.vectorThreshold).results
    /\ \A entry \in SearchedEntries :
         (\E a \in Range(Accepted) : a.from >= 0 /\ a.content = entry)
           <=> scoreMatch(queryTermsOf(lastCall.query), entry \o <<" ">>) * 10
                 >= Len(queryTermsOf(lastCall.query)) * 150

\* the embedding request of a three-word query fails on a store that holds
\* embeddings: an entry that vector scoring would accept is not returned
\* and an entry matching both terms is
C33_Witness ==
  /\ lastCall.op = "searchMemory"
  /\ lastCall.jina = "fails"
  /\ lastCall.result.embeddingRequests = 1
  /\ lastCall.vectorThreshold = Undefined
  /\ TextGit \in SearchedEntries
  /\ calculateFragmentHash("decision", TextGit)
       \in DOMAIN vectorsOf(lastCall.store)
  /\ \A i \in 1..Len(Returned) : Returned[i].content # TextGit
  /\ \E i \in 1..Len(Returned) : Returned[i].content = TextGitApp


\* the text a returned result was matched against
MatchedText(r) == r.text

\* the words of the query of the last call, in lower case
QueryWords == Range(splitRuns(lowerCase(lastCall.query), {" "}, <<>>))

\* C40: searchMemory never returns a keyword-scored entry whose text
\* contains none of the words of the query, also when every word of the
\* query has at most 2 characters and the term list is empty.
C40_NoMatchNotReturned ==
  lastCall.op = "searchMemory" =>
    \A r \in Range(Returned) :
      ~r.hasVector =>
        \E word \in QueryWords : includes(lowerCase(MatchedText(r)), word)


\* C31 as stated: no result set returned by searchMemory holds two entries
\* of the same type, primary text and secondary text, whether the copies
\* come from different snapshots, from current or from different searched
\* projects.
C31_NoDuplicatesAsStated ==
  lastCall.op = "searchMemory" =>
    \A i, j \in 1..Len(Returned) :
      (Returned[i].type = Returned[j].type
         /\ Returned[i].content = Returned[j].content) => i = j

\* C31: no result set returned by searchMemory holds two fragment entries
\* of the same type, primary text and secondary text, whether the copies
\* come from different snapshots, from current or from different searched
\* projects; two source chunks are returned with the same description only
\* if they are chunks of different content in different projects.
C31_NoDuplicates ==
  lastCall.op = "searchMemory" =>
    \A i, j \in 1..Len(Returned) :
      (Returned[i].type = Returned[j].type
         /\ Returned[i].content = Returned[j].content)
        => \/ i = j
           \/ /\ Returned[i].type = "source"
              /\ Returned[i].project # Returned[j].project
              /\ Returned[i].text # Returned[j].text

\* the projects of the index the last call searched
SearchedProjects ==
  {p \in 1..Len(lastCall.index) :
     lastCall.all \/ lastCall.projectFilter = NoFilter
       \/ lastCall.index[p].name \in lastCall.projectFilter}

\* the decision "git" is held by the snapshot and by current of the first
\* project and by the snapshot of the second, both projects are searched,
\* and it is returned once
C31_Witness ==
  /\ lastCall.op = "searchMemory"
  /\ lastCall.query = TextGit
  /\ SearchedProjects = {1, 2}
  /\ Len(lastCall.index[1].sessionSnapshots) = 1
  /\ TextGit \in Range(lastCall.index[1].sessionSnapshots[1].entries)
  /\ TextGit \in Range(lastCall.index[1].current)
  /\ TextGit \in Range(lastCall.index[2].sessionSnapshots[1].entries)
  /\ \E i \in 1..Len(Returned) :
       Returned[i].type = "decision" /\ Returned[i].content = TextGit


\* the texts of the entries of a type that a project holds, as they are
\* matched against the query
TextsOfType(store, type) ==
  IF type = "decision"
  THEN {e \o <<" ">> :
          e \in Range(store.current)
                  \cup UNION {Range(store.sessionSnapshots[i].entries) :
                                i \in 1..Len(store.sessionSnapshots)}}
  ELSE IF type = "gotcha"
  THEN {e \o <<" ">> :
          e \in Range(store.currentGotchas)
                  \cup UNION {Range(store.sessionSnapshots[i].gotchas) :
                                i \in 1..Len(store.sessionSnapshots)}}
  ELSE IF type = "source"
  THEN {<<"s", "r", "c", " ">> \o c : c \in Range(store.chunks)}
  ELSE {}

\* a keyword-scored text reaches the keyword minimum of the last call
KeywordAccepts(text) ==
  scoreMatch(queryTermsOf(lastCall.query), text) * 10
    >= Len(queryTermsOf(lastCall.query)) * 150

\* C39: when a type filter is given, every returned result has a type
\* that is a member of the filter, and the entries of every type named in
\* the filter are searched: those of the searched projects that the query
\* accepts are returned.
C39_TypeFilter ==
  (lastCall.op = "searchMemory" /\ lastCall.typeFilter # NoFilter) =>
    /\ \A r \in Range(Returned) : r.type \in lastCall.typeFilter
    /\ \A type \in lastCall.typeFilter, p \in SearchedProjects :
         \A text \in TextsOfType(lastCall.index[p], type) :
           KeywordAccepts(text)
             => \E r \in Range(Returned) : r.type = type /\ r.text = text


(***************************************************************************)
(* C34..C38: the evolve command over several runs                          *)
(***************************************************************************)
\* the memory holds a Snapshot of the session
HasSnapshot(d, sid) ==
  d # NoMemory /\ findIndex(d.sessionSnapshots, sid) # 0

\* the fragments of the Snapshot persisted for a session
StoredSnapshot(d, sid) ==
  d.sessionSnapshots[findIndex(d.sessionSnapshots, sid)].fragments

\* this step is a pass over sid that yields zero new events for a session
\* that has a Snapshot
ZeroEventPass(sid) ==
  /\ PassOver(sid)
  /\ seen'[sid].new = 0
  /\ run'.processed = run.processed
  /\ HasSnapshot(disk, sid)

\* C34: an evolve pass that yields zero new events for a session that
\* already has a Snapshot leaves the fragments of that Snapshot unchanged.
C34_ZeroEventPassKeepsSnapshot ==
  [][\A sid \in EvolveSessions :
       ZeroEventPass(sid)
         => /\ HasSnapshot(disk', sid)
            /\ StoredSnapshot(disk', sid) = StoredSnapshot(disk, sid)]_vars


\* the values parseSessionFile returns as processedBytes for the log b as
\* it stands and as it stood at any earlier length
ParserOffsets(b) ==
  {parseSessionFile(SubSeq(b, 1, n)).processedBytes : n \in 0..Len(b)}

\* C35: in every persisted state the byteOffset stored for a session is a
\* value the parser returned as processedBytes for that log: 0 or the
\* offset just after a fully processed line, never an offset inside or
\* beyond a record that has not been parsed.
C35_OffsetFromParser ==
  \A sid \in EvolveSessions :
    StoredOffset(disk, sid) # Undefined
      => StoredOffset(disk, sid) \in ParserOffsets(files[sid])


\* the Snapshots of the memory whose fragments current does not hold yet
Unconsolidated(d) ==
  IF d = NoMemory THEN {}
  ELSE {x \in Range(d.sessionSnapshots) :
          \E t \in CollaboratorTypes : ~(x.fragments[t] \subseteq d.current[t])}

\* the step on which a run that found no session needing work leaves its
\* loop over the sessions
NoActivityRunEnds ==
  run.pc = "vertical" /\ run.todo = <<>> /\ run'.pc # "vertical"

\* C36: a Snapshot whose consolidation into current failed or did not
\* happen is consolidated by a later run: a run that finds no session with
\* new activity while such a Snapshot exists still performs horizontal
\* evolution over it.
C36_LaterRunConsolidates ==
  [][(NoActivityRunEnds /\ Unconsolidated(disk) # {})
       => /\ run'.pc = "horizontal"
          /\ Unconsolidated(disk) \subseteq Range(run'.snapshots)]_vars


\* the session needs work as the first pass of a run without --force sees it
NeedsWorkNow(sid) ==
  needsWork(disk, [sessionId |-> sid, modifiedTime |-> mtime[sid],
                   fileSize |-> Len(files[sid])], FALSE)

\* C37: under repeated evolve runs with a session limit every session that
\* needs work is eventually processed: a session that needs work and has
\* had no pass yet is passed over by some later run.
C37_NoStarvation ==
  \A sid \in BatchSessions :
    (NeedsWorkNow(sid) /\ seen[sid] = NoPass) ~> (seen[sid] # NoPass)


\* the events this step presents to vertical evolution for the first time
NewlyDelivered(sid) == delivered'[sid] \ delivered[sid]

\* this step stores a Snapshot of sid in which some collaborator's fragment
\* lacks an event the step presented: that collaborator's call failed
FailedCall(sid) ==
  \E e \in NewlyDelivered(sid) : \E t \in CollaboratorTypes :
    <<sid, e>> \notin StoredSnapshot(disk', sid)[t]

\* the stored byteOffset lies past the last byte of the record of every
\* event in E
AdvancedPast(d, sid, E) ==
  \A e \in E : LineEnd(files[sid], e) <= StoredOffset(d, sid)

\* the events presented by earlier passes that the stored fragment of type
\* t was not evolved from: the collaborator call for t failed in their pass
NotEvolvedFrom(d, sid, t) ==
  IF ~HasSnapshot(d, sid) THEN {}
  ELSE {e \in delivered[sid] : <<sid, e>> \notin StoredSnapshot(d, sid)[t]}

\* C38: after a Vertical pass in which the collaborator call for some
\* fragment type failed, the ProcessingState lies past every event of the
\* pass (byteOffset past their records, messageCount counting them), and
\* no later pass presents those events to that fragment type again: the
\* fragment is never evolved from them afterwards.
C38_FailedPassAdvances ==
  [][\A sid \in EvolveSessions :
       /\ (PassOver(sid) /\ FailedCall(sid)) =>
            /\ AdvancedPast(disk', sid, NewlyDelivered(sid))
            /\ StoredState(disk', sid).messageCount >=
                 Cardinality(delivered'[sid])
       /\ \A t \in CollaboratorTypes :
            NotEvolvedFrom(disk, sid, t) \subseteq
              NotEvolvedFrom(disk', sid, t)]_vars

====
